---------------------------- MODULE Spec2Model ----------------------------
(***************************************************************************)
(* The Instagram scraping pipeline of scraper.py (InstagramScraper) and    *)
(* the /scrape endpoint of app.py that calls it.                           *)
(*                                                                         *)
(* Python values are represented as follows.                               *)
(*   str            a sequence of one-character strings                    *)
(*   Optional[T]    None is <<>>, a value v is <<v>> (see None, Some)      *)
(*   exception      [type |-> class name, msg |-> str(e)]                  *)
(* The two external collaborators (AsyncWebCrawler.arun and the OpenAI     *)
(* chat completion call) are inputs: each call draws its outcome from a    *)
(* finite set of outcomes.                                                 *)
(***************************************************************************)
EXTENDS Integers, Sequences, FiniteSets, TLC

VARIABLES
    pc,                \* position of the request: start, fetching, sleeping, extracting, done
    max_retries,       \* Config.INSTAGRAM_MAX_RETRIES
    SCRAPE_TIMEOUT,    \* Config.SCRAPE_TIMEOUT (seconds)
    instagram_url,     \* the URL passed to scrape_instagram_post
    attempt,           \* loop variable of _scrape_with_crawl4ai_retry (0-based)
    scraped_content,   \* scrape_instagram_post's local scraped_content (Optional[str])
    retry_result,      \* history: how _scrape_with_crawl4ai_retry ended (returned / raised)
    fetch_log,         \* history: the result of every _scrape_with_crawl4ai call, in order
    extractor_log,     \* history: the outcome of every OpenAI call, in order
    trace,             \* history: fetch / wait / extract / normalize events, in order
    deadline_elapsed,  \* SCRAPE_TIMEOUT has elapsed
    pipeline,          \* how scrape_instagram_post ended (under asyncio.wait_for)
    response,          \* the HTTP response of scrape_instagram
    slept,             \* history: the delay of every asyncio.sleep of the retry loop
    unit,              \* one function applied on its own: its argument and its results
    invocations        \* the requests in progress when several are served at once

vars == <<pc, max_retries, SCRAPE_TIMEOUT, instagram_url, attempt, scraped_content, retry_result, fetch_log,
          extractor_log, trace, deadline_elapsed, pipeline, response, slept, unit,
          invocations>>

-----------------------------------------------------------------------------
(* Bounds of the model *)

\* INSTAGRAM_MAX_RETRIES ranges over -1 .. MaxRetriesBound (int() of the
\* environment variable accepts a negative number)
MaxRetriesBound == 3

\* SCRAPE_TIMEOUT when the environment does not set it. The model takes it
\* from {-1, 0, DefaultScrapeTimeout}: int() of the environment variable accepts
\* zero and a negative number.
DefaultScrapeTimeout == 60

-----------------------------------------------------------------------------
(* Python values *)

None == <<>>
Some(v) == <<v>>
Val(o) == o[1]

\* bool(x) of an Optional[str] / Optional[int]: None, "" and 0 are falsy
TruthyStr(o) == o # None /\ Val(o) # <<>>
TruthyInt(o) == o # None /\ Val(o) # 0

UpperCase == <<"A","B","C","D","E","F","G","H","I","J","K","L","M","N","O","P","Q","R","S","T","U","V","W","X","Y","Z">> (* "ABCDEFGHIJKLMNOPQRSTUVWXYZ" *)
LowerCase == <<"a","b","c","d","e","f","g","h","i","j","k","l","m","n","o","p","q","r","s","t","u","v","w","x","y","z">> (* "abcdefghijklmnopqrstuvwxyz" *)
Digits    == <<"0","1","2","3","4","5","6","7","8","9">> (* "0123456789" *)

\* str.lower() of the characters it changes, as a lookup table: the capitals
\* of ASCII and those outside ASCII among the characters a string of this
\* module can hold (code points up to U+00FF)
LowerOf ==
    LET UpperOther == <<"À","Á","Â","Ã","Ä","Å","Æ","Ç","È","É","Ê","Ë","Ì","Í","Î","Ï","Ð","Ñ","Ò","Ó","Ô","Õ","Ö","Ø","Ù","Ú","Û","Ü","Ý","Þ">> (* "ÀÁÂÃÄÅÆÇÈÉÊËÌÍÎÏÐÑÒÓÔÕÖØÙÚÛÜÝÞ" *)
        LowerOther == <<"à","á","â","ã","ä","å","æ","ç","è","é","ê","ë","ì","í","î","ï","ð","ñ","ò","ó","ô","õ","ö","ø","ù","ú","û","ü","ý","þ">> (* "àáâãäåæçèéêëìíîïðñòóôõöøùúûüýþ" *)
    IN [c \in {UpperCase[i] : i \in DOMAIN UpperCase}
               \cup {UpperOther[i] : i \in DOMAIN UpperOther} |->
           IF \E i \in DOMAIN UpperCase : UpperCase[i] = c
           THEN LowerCase[CHOOSE i \in DOMAIN UpperCase : UpperCase[i] = c]
           ELSE LowerOther[CHOOSE i \in DOMAIN UpperOther : UpperOther[i] = c]]
Capitals == DOMAIN LowerOf

\* str.lower()
LowerChar(c) == IF c \in Capitals THEN LowerOf[c] ELSE c
Lower(s) == [i \in 1..Len(s) |-> LowerChar(s[i])]

\* sub in s
Contains(sub, s) ==
    \E i \in 1..(Len(s) - Len(sub) + 1) : \A k \in 1..Len(sub) : s[i + k - 1] = sub[k]

\* any(keyword in s for keyword in keywords)
ContainsAny(keywords, s) == \E k \in keywords : Contains(k, s)

\* str.strip(): the text between the first and the last non-whitespace character.
\* Whitespace holds the characters str.isspace() accepts among the characters
\* a string of this module can hold (code points up to U+00FF): U+0009..U+000D,
\* U+001C..U+001F, U+0020, U+0085 and U+00A0.
Whitespace ==
    {"\t", "\n", "", "\f", "\r", "", "", "", "", " ", "", " "}
Strip(s) ==
    LET RECURSIVE FirstKept(_)
        FirstKept(i) ==
            IF i > Len(s) \/ s[i] \notin Whitespace THEN i ELSE FirstKept(i + 1)
        RECURSIVE LastKept(_)
        LastKept(i) ==
            IF i < 1 \/ s[i] \notin Whitespace THEN i ELSE LastKept(i - 1)
    IN SubSeq(s, FirstKept(1), LastKept(Len(s)))

\* an exception object and str(e)
Exception(m) == [type |-> "Exception", msg |-> m]
NoException == [type |-> "none", msg |-> <<>>]

\* how a call ends: it returns a value or raises an exception
Return(v) == [kind |-> "return", value |-> v, exc |-> NoException]
Raise(e)  == [kind |-> "raise", value |-> None, exc |-> e]

-----------------------------------------------------------------------------
(* _scrape_with_crawl4ai: the fetch adapter *)

\* scraper.py:119, the minimum usable content length
MinContentLength == 100

\* scraper.py:125-131, the block of media URLs appended to the markdown
RECURSIVE MediaLines(_)
MediaLines(media) ==
    IF media = <<>> THEN <<>>
    ELSE LET media_item == Head(media)
             \* getattr(media_item, 'type', 'unknown') inside the f-string: the
             \* default stands in for a missing attribute only, a None is printed
             media_type == IF ~media_item.has_type THEN <<"u","n","k","n","o","w","n">> (* "unknown" *)
                           ELSE IF media_item.type = None THEN <<"N","o","n","e">> (* "None" *)
                           ELSE Val(media_item.type)
         IN (IF TruthyStr(media_item.url)
             THEN <<"M","e","d","i","a"," ","U","R","L"," ","(">> (* "Media URL (" *) \o media_type \o <<")",":"," ">> (* "): " *) \o Val(media_item.url) \o <<"\n">> (* "\n" *)
             ELSE <<>>)
            \o MediaLines(Tail(media))

ContentWithMedia(result) ==
    IF result.media # <<>>
    THEN Val(result.markdown) \o <<"\n","\n","-","-","-"," ","E","X","T","R","A","C","T","E","D"," ","M","E","D","I","A"," ","U","R","L","S"," ","-","-","-","\n">> (* "\n\n--- EXTRACTED MEDIA URLS ---\n" *) \o MediaLines(result.media)
    ELSE Val(result.markdown)

\* Faulty variant of CategorizeFetchError: the rate-limit test comes first.
CategorizeFetchError_RateLimitFirst(result) ==
    LET error_msg == IF TruthyStr(result.error_message)
                     THEN Val(result.error_message) ELSE <<"U","n","k","n","o","w","n"," ","e","r","r","o","r">> (* "Unknown error" *)
    IN IF Contains(<<"r","a","t","e"," ","l","i","m","i","t">> (* "rate limit" *), Lower(error_msg)) \/ Contains(<<"4","2","9">> (* "429" *), error_msg)
       THEN Exception(<<"I","n","s","t","a","g","r","a","m"," ","i","s"," ","r","a","t","e"," ","l","i","m","i","t","i","n","g"," ","r","e","q","u","e","s","t","s">> (* "Instagram is rate limiting requests" *))
       ELSE IF Contains(<<"4","0","4">> (* "404" *), error_msg) \/ Contains(<<"n","o","t"," ","f","o","u","n","d">> (* "not found" *), Lower(error_msg))
       THEN Exception(<<"I","n","s","t","a","g","r","a","m"," ","p","o","s","t"," ","n","o","t"," ","f","o","u","n","d"," ","o","r"," ","d","e","l","e","t","e","d">> (* "Instagram post not found or deleted" *))
       ELSE IF Contains(<<"4","0","3">> (* "403" *), error_msg) \/ Contains(<<"f","o","r","b","i","d","d","e","n">> (* "forbidden" *), Lower(error_msg))
       THEN Exception(<<"I","n","s","t","a","g","r","a","m"," ","p","o","s","t"," ","i","s"," ","p","r","i","v","a","t","e"," ","o","r"," ","a","c","c","e","s","s"," ","d","e","n","i","e","d">> (* "Instagram post is private or access denied" *))
       ELSE Exception(<<"F","a","i","l","e","d"," ","t","o"," ","a","c","c","e","s","s"," ","I","n","s","t","a","g","r","a","m"," ","p","o","s","t",":"," ">> (* "Failed to access Instagram post: " *) \o error_msg)

\* scraper.py:136-147, the keyword classification of a failed crawl
CategorizeFetchError(result) ==
    LET error_msg == IF TruthyStr(result.error_message)
                     THEN Val(result.error_message) ELSE <<"U","n","k","n","o","w","n"," ","e","r","r","o","r">> (* "Unknown error" *)
    IN IF Contains(<<"4","0","4">> (* "404" *), error_msg) \/ Contains(<<"n","o","t"," ","f","o","u","n","d">> (* "not found" *), Lower(error_msg))
       THEN Exception(<<"I","n","s","t","a","g","r","a","m"," ","p","o","s","t"," ","n","o","t"," ","f","o","u","n","d"," ","o","r"," ","d","e","l","e","t","e","d">> (* "Instagram post not found or deleted" *))
       ELSE IF Contains(<<"4","0","3">> (* "403" *), error_msg) \/ Contains(<<"f","o","r","b","i","d","d","e","n">> (* "forbidden" *), Lower(error_msg))
       THEN Exception(<<"I","n","s","t","a","g","r","a","m"," ","p","o","s","t"," ","i","s"," ","p","r","i","v","a","t","e"," ","o","r"," ","a","c","c","e","s","s"," ","d","e","n","i","e","d">> (* "Instagram post is private or access denied" *))
       ELSE IF Contains(<<"r","a","t","e"," ","l","i","m","i","t">> (* "rate limit" *), Lower(error_msg)) \/ Contains(<<"4","2","9">> (* "429" *), error_msg)
       THEN Exception(<<"I","n","s","t","a","g","r","a","m"," ","i","s"," ","r","a","t","e"," ","l","i","m","i","t","i","n","g"," ","r","e","q","u","e","s","t","s">> (* "Instagram is rate limiting requests" *))
       ELSE Exception(<<"F","a","i","l","e","d"," ","t","o"," ","a","c","c","e","s","s"," ","I","n","s","t","a","g","r","a","m"," ","p","o","s","t",":"," ">> (* "Failed to access Instagram post: " *) \o error_msg)

\* Faulty variant of ContentTooShort: a text of exactly the minimum length is refused.
ContentTooShort_Inclusive(result) ==
    ~TruthyStr(result.markdown) \/ Len(Strip(Val(result.markdown))) <= MinContentLength

\* scraper.py:118-121, the content-quality gate
ContentTooShort(result) ==
    ~TruthyStr(result.markdown) \/ Len(Strip(Val(result.markdown))) < MinContentLength

\* o is what crawler.arun did: it raised o.exc, or returned the result o
_scrape_with_crawl4ai(o) ==
    IF o.raises THEN Raise(o.exc)
    ELSE IF o.success
         THEN IF ContentTooShort(o) THEN Return(None)
              ELSE Return(Some(ContentWithMedia(o)))
         ELSE Raise(CategorizeFetchError(o))

-----------------------------------------------------------------------------
(* _scrape_with_crawl4ai_retry: the retry controller *)

\* Faulty variant of NotLastAttempt (off by one): the last attempt counts as one
\* more attempt to retry, so its error is swallowed like the others.
NotLastAttempt_OffByOne(attempt_, max_) == attempt_ < max_

\* scraper.py:72 and scraper.py:78, "this is not the last attempt"
NotLastAttempt(attempt_, max_) == attempt_ < max_ - 1

\* Faulty variant of RetryStep: the content is looked at on the last attempt only,
\* so an earlier success is followed by more attempts.
RetryStep_IgnoresEarlyContent(res, attempt_, max_) ==
    IF attempt_ < max_ - 1
    THEN [next |-> "sleep", result |-> Return(None)]
    ELSE IF res.kind = "return"
         THEN [next |-> "done", result |-> Return(res.value)]
         ELSE [next |-> "done", result |-> Raise(res.exc)]

\* Faulty variant of RetryStep: one "retry on any falsy or failed result" loop
\* that raises when the attempts are exhausted, whatever the last attempt was.
RetryStep_Unified(res, attempt_, max_) ==
    IF res.kind = "return" /\ TruthyStr(res.value)
    THEN [next |-> "done", result |-> Return(res.value)]
    ELSE IF attempt_ < max_ - 1
    THEN [next |-> "sleep", result |-> Return(None)]
    ELSE [next |-> "done",
          result |-> Raise(IF res.kind = "raise" THEN res.exc
                           ELSE Exception(<<"F","a","i","l","e","d"," ","t","o"," ","a","c","c","e","s","s"," ","I","n","s","t","a","g","r","a","m"," ","p","o","s","t",":"," ","n","o"," ","c","o","n","t","e","n","t">> (* "Failed to access Instagram post: no content" *)))]

\* Config.INSTAGRAM_RETRY_DELAY when the environment does not set it (seconds)
INSTAGRAM_RETRY_DELAY == 2

\* Faulty variant of RetryDelay: the delay doubles with every attempt.
RetryDelay_Exponential(res, attempt_) == INSTAGRAM_RETRY_DELAY * 2 ^ attempt_

\* scraper.py:74 and 79: the argument of asyncio.sleep after the adapter result
\* res of attempt attempt_, the same in the soft-failure and the error branch
RetryDelay(res, attempt_) == INSTAGRAM_RETRY_DELAY

\* Faulty variant of RetryStep: a "not found" error is raised at once.
RetryStep_FatalNotFound(res, attempt_, max_) ==
    IF res.kind = "return"
    THEN IF TruthyStr(res.value)
         THEN [next |-> "done", result |-> Return(res.value)]
         ELSE IF NotLastAttempt(attempt_, max_)
              THEN [next |-> "sleep", result |-> Return(None)]
              ELSE [next |-> "done", result |-> Return(None)]
    ELSE IF NotLastAttempt(attempt_, max_)
            /\ res.exc.msg # <<"I","n","s","t","a","g","r","a","m"," ","p","o","s","t"," ","n","o","t"," ","f","o","u","n","d"," ","o","r"," ","d","e","l","e","t","e","d">> (* "Instagram post not found or deleted" *)
         THEN [next |-> "sleep", result |-> Return(None)]
         ELSE [next |-> "done", result |-> Raise(res.exc)]

\* One pass through the loop body (scraper.py:65-81) for the adapter result res:
\* the loop returns the content, sleeps before the next attempt, re-raises,
\* or falls out of the loop and returns None (scraper.py:83).
RetryStep(res, attempt_, max_) ==
    IF res.kind = "return"
    THEN IF TruthyStr(res.value)
         THEN [next |-> "done", result |-> Return(res.value)]
         ELSE IF NotLastAttempt(attempt_, max_)
              THEN [next |-> "sleep", result |-> Return(None)]
              ELSE [next |-> "done", result |-> Return(None)]
    ELSE IF NotLastAttempt(attempt_, max_)
         THEN [next |-> "sleep", result |-> Return(None)]
         ELSE [next |-> "done", result |-> Raise(res.exc)]

-----------------------------------------------------------------------------
(* _prioritize_video_content: the normalizer *)

video_extensions == {<<".","m","p","4">> (* ".mp4" *), <<".","m","o","v">> (* ".mov" *), <<".","w","e","b","m">> (* ".webm" *), <<".","a","v","i">> (* ".avi" *)}
video_indicators == {<<"v","i","d","e","o","/">> (* "video/" *), <<"/","v","i","d","e","o">> (* "/video" *), <<"v","i","d","e","o","s",".">> (* "videos." *), <<"v","i","d","e","o","p","l","a","y","b","a","c","k">> (* "videoplayback" *)}

\* Faulty variant of is_video_url: the URL is not lower-cased.
is_video_url_CaseSensitive(videoUrl) ==
    ContainsAny(video_extensions, videoUrl) \/ ContainsAny(video_indicators, videoUrl)

\* scraper.py:290-294
is_video_url(videoUrl) ==
    LET video_url_lower == Lower(videoUrl)
    IN ContainsAny(video_extensions, video_url_lower)
       \/ ContainsAny(video_indicators, video_url_lower)

\* Faulty variant of PrioritizeVideoUrl: imageUrl and displayUrl change places.
PrioritizeVideoUrl_Swaps(post) ==
    IF TruthyStr(post.videoUrl) /\ Strip(Val(post.videoUrl)) # <<>>
       /\ is_video_url(Val(post.videoUrl))
    THEN IF TruthyStr(post.imageUrl)
         THEN [post EXCEPT !.type = Some(<<"v","i","d","e","o">> (* "video" *)),
                           !.displayUrl = post.imageUrl,
                           !.imageUrl = post.displayUrl]
         ELSE [post EXCEPT !.type = Some(<<"v","i","d","e","o">> (* "video" *))]
    ELSE post

\* Faulty variant of PrioritizeVideoUrl: imageUrl is copied, not moved.
PrioritizeVideoUrl_KeepsImage(post) ==
    IF TruthyStr(post.videoUrl) /\ Strip(Val(post.videoUrl)) # <<>>
       /\ is_video_url(Val(post.videoUrl))
    THEN IF TruthyStr(post.imageUrl) /\ ~TruthyStr(post.displayUrl)
         THEN [post EXCEPT !.type = Some(<<"v","i","d","e","o">> (* "video" *)),
                           !.displayUrl = post.imageUrl]
         ELSE [post EXCEPT !.type = Some(<<"v","i","d","e","o">> (* "video" *))]
    ELSE post

\* Faulty variant of PrioritizeVideoUrl: imageUrl is cleared for every video.
PrioritizeVideoUrl_ClearsImage(post) ==
    IF TruthyStr(post.videoUrl) /\ Strip(Val(post.videoUrl)) # <<>>
       /\ is_video_url(Val(post.videoUrl))
    THEN IF TruthyStr(post.imageUrl) /\ ~TruthyStr(post.displayUrl)
         THEN [post EXCEPT !.type = Some(<<"v","i","d","e","o">> (* "video" *)),
                           !.displayUrl = post.imageUrl,
                           !.imageUrl = None]
         ELSE [post EXCEPT !.type = Some(<<"v","i","d","e","o">> (* "video" *)), !.imageUrl = None]
    ELSE post

\* Faulty variant of PrioritizeVideoUrl: imageUrl is moved over a displayUrl.
PrioritizeVideoUrl_Overwrites(post) ==
    IF TruthyStr(post.videoUrl) /\ Strip(Val(post.videoUrl)) # <<>>
       /\ is_video_url(Val(post.videoUrl))
    THEN IF TruthyStr(post.imageUrl)
         THEN [post EXCEPT !.type = Some(<<"v","i","d","e","o">> (* "video" *)),
                           !.displayUrl = post.imageUrl,
                           !.imageUrl = None]
         ELSE [post EXCEPT !.type = Some(<<"v","i","d","e","o">> (* "video" *))]
    ELSE post

\* scraper.py:285-305
PrioritizeVideoUrl(post) ==
    IF TruthyStr(post.videoUrl) /\ Strip(Val(post.videoUrl)) # <<>>
       /\ is_video_url(Val(post.videoUrl))
    THEN IF TruthyStr(post.imageUrl) /\ ~TruthyStr(post.displayUrl)
         THEN [post EXCEPT !.type = Some(<<"v","i","d","e","o">> (* "video" *)),
                           !.displayUrl = post.imageUrl,
                           !.imageUrl = None]
         ELSE [post EXCEPT !.type = Some(<<"v","i","d","e","o">> (* "video" *))]
    ELSE post

\* scraper.py:308-310
VideoCountsImplyVideo(post) ==
    IF (TruthyInt(post.videoViewCount) \/ TruthyInt(post.videoPlayCount))
       /\ ~TruthyStr(post.type)
    THEN [post EXCEPT !.type = Some(<<"v","i","d","e","o">> (* "video" *))]
    ELSE post

\* Faulty variant of _prioritize_video_content: videoUrl is stored stripped.
_prioritize_video_content_StripsUrl(post) ==
    LET stripped == IF post.videoUrl = None THEN post
                    ELSE [post EXCEPT !.videoUrl = Some(Strip(Val(post.videoUrl)))]
    IN VideoCountsImplyVideo(PrioritizeVideoUrl(stripped))

\* scraper.py:280-315
_prioritize_video_content(post) == VideoCountsImplyVideo(PrioritizeVideoUrl(post))

-----------------------------------------------------------------------------
(* _parse_with_openai: the extractor adapter *)

\* InstagramPost(), every field None
EmptyPost ==
    [caption |-> None, type |-> None, url |-> None, videoUrl |-> None,
     imageUrl |-> None, displayUrl |-> None, shortCode |-> None,
     timestamp |-> None, likesCount |-> None, commentsCount |-> None,
     videoViewCount |-> None, videoPlayCount |-> None, ownerUsername |-> None,
     ownerFullName |-> None, locationName |-> None, hashtags |-> None,
     mentions |-> None, alt |-> None]

\* the character class [A-Za-z0-9_-]
ShortCodeChars ==
    {UpperCase[i] : i \in 1..26} \cup {LowerCase[i] : i \in 1..26}
    \cup {Digits[i] : i \in 1..10} \cup {"_", "-"}

\* re.search(r'/p/([A-Za-z0-9_-]+)', url): None, or group(1) of the leftmost match
ShortCodeMatch(url) ==
    LET starts == {i \in 1..(Len(url) - 3) :
                      SubSeq(url, i, i + 2) = <<"/","p","/">> (* "/p/" *) /\ url[i + 3] \in ShortCodeChars}
        first == CHOOSE i \in starts : \A j \in starts : i <= j
        ends == {j \in (first + 3)..Len(url) :
                    \A k \in (first + 3)..j : url[k] \in ShortCodeChars}
        last == CHOOSE j \in ends : \A k \in ends : k <= j
    IN IF starts = {} THEN None ELSE Some(SubSeq(url, first + 3, last))

\* Faulty variant of BackfillArgs: an empty shortCode is taken as supplied.
BackfillArgs_OnlyWhenNull(function_args, url) ==
    LET with_url == IF ~TruthyStr(function_args.url)
                    THEN [function_args EXCEPT !.url = Some(url)]
                    ELSE function_args
    IN IF with_url.shortCode = None /\ Contains(<<"/","p","/">> (* "/p/" *), url)
          /\ ShortCodeMatch(url) # None
       THEN [with_url EXCEPT !.shortCode = ShortCodeMatch(url)]
       ELSE with_url

\* Faulty variant of BackfillArgs: only a missing url is filled in.
BackfillArgs_KeepsEmptyUrl(function_args, url) ==
    LET with_url == IF function_args.url = None
                    THEN [function_args EXCEPT !.url = Some(url)]
                    ELSE function_args
    IN IF ~TruthyStr(with_url.shortCode) /\ Contains(<<"/","p","/">> (* "/p/" *), url)
          /\ ShortCodeMatch(url) # None
       THEN [with_url EXCEPT !.shortCode = ShortCodeMatch(url)]
       ELSE with_url

\* scraper.py:244-253, the url and shortCode backfill on function_args
BackfillArgs(function_args, url) ==
    LET with_url == IF ~TruthyStr(function_args.url)
                    THEN [function_args EXCEPT !.url = Some(url)]
                    ELSE function_args
    IN IF ~TruthyStr(with_url.shortCode) /\ Contains(<<"/","p","/">> (* "/p/" *), url)
          /\ ShortCodeMatch(url) # None
       THEN [with_url EXCEPT !.shortCode = ShortCodeMatch(url)]
       ELSE with_url

\* Faulty variant of ClassifyOpenAIError: the quota test comes first.
ClassifyOpenAIError_QuotaFirst(e) ==
    LET error_msg == Lower(e.msg)
    IN IF Contains(<<"q","u","o","t","a">> (* "quota" *), error_msg) \/ Contains(<<"b","i","l","l","i","n","g">> (* "billing" *), error_msg)
       THEN Exception(<<"O","p","e","n","A","I"," ","A","P","I"," ","q","u","o","t","a"," ","e","x","c","e","e","d","e","d"," ","o","r"," ","b","i","l","l","i","n","g"," ","i","s","s","u","e">> (* "OpenAI API quota exceeded or billing issue" *))
       ELSE IF Contains(<<"a","p","i"," ","k","e","y">> (* "api key" *), error_msg)
       THEN Exception(<<"O","p","e","n","A","I"," ","A","P","I"," ","k","e","y"," ","i","s"," ","i","n","v","a","l","i","d"," ","o","r"," ","m","i","s","s","i","n","g">> (* "OpenAI API key is invalid or missing" *))
       ELSE IF Contains(<<"r","a","t","e"," ","l","i","m","i","t">> (* "rate limit" *), error_msg)
       THEN Exception(<<"O","p","e","n","A","I"," ","A","P","I"," ","r","a","t","e"," ","l","i","m","i","t"," ","e","x","c","e","e","d","e","d">> (* "OpenAI API rate limit exceeded" *))
       ELSE Exception(<<"O","p","e","n","A","I"," ","p","r","o","c","e","s","s","i","n","g"," ","f","a","i","l","e","d",":"," ">> (* "OpenAI processing failed: " *) \o e.msg)

\* scraper.py:267-278, the keyword classification of an extractor error
ClassifyOpenAIError(e) ==
    LET error_msg == Lower(e.msg)
    IN IF Contains(<<"a","p","i"," ","k","e","y">> (* "api key" *), error_msg)
       THEN Exception(<<"O","p","e","n","A","I"," ","A","P","I"," ","k","e","y"," ","i","s"," ","i","n","v","a","l","i","d"," ","o","r"," ","m","i","s","s","i","n","g">> (* "OpenAI API key is invalid or missing" *))
       ELSE IF Contains(<<"q","u","o","t","a">> (* "quota" *), error_msg) \/ Contains(<<"b","i","l","l","i","n","g">> (* "billing" *), error_msg)
       THEN Exception(<<"O","p","e","n","A","I"," ","A","P","I"," ","q","u","o","t","a"," ","e","x","c","e","e","d","e","d"," ","o","r"," ","b","i","l","l","i","n","g"," ","i","s","s","u","e">> (* "OpenAI API quota exceeded or billing issue" *))
       ELSE IF Contains(<<"r","a","t","e"," ","l","i","m","i","t">> (* "rate limit" *), error_msg)
       THEN Exception(<<"O","p","e","n","A","I"," ","A","P","I"," ","r","a","t","e"," ","l","i","m","i","t"," ","e","x","c","e","e","d","e","d">> (* "OpenAI API rate limit exceeded" *))
       ELSE Exception(<<"O","p","e","n","A","I"," ","p","r","o","c","e","s","s","i","n","g"," ","f","a","i","l","e","d",":"," ">> (* "OpenAI processing failed: " *) \o e.msg)

\* scraper.py:264-266, the handler of json.JSONDecodeError
JSONDecodeErrorHandler == Exception(<<"F","a","i","l","e","d"," ","t","o"," ","p","a","r","s","e"," ","O","p","e","n","A","I"," ","r","e","s","p","o","n","s","e">> (* "Failed to parse OpenAI response" *))

\* scraper.py:260-262, raised inside the try block when there is no function call
NoFunctionCallError == Exception(<<"O","p","e","n","A","I"," ","f","a","i","l","e","d"," ","t","o"," ","p","a","r","s","e"," ","I","n","s","t","a","g","r","a","m"," ","c","o","n","t","e","n","t">> (* "OpenAI failed to parse Instagram content" *))

\* scraper.py:242, json.loads of arguments that are JSON but not an object: the
\* Python type of the value, on which function_args.get fails. A JSON number is
\* an int when it is written without fraction and exponent ("integer") and a
\* float otherwise ("real", NaN and Infinity included).
AttributeError(kind) ==
    [type |-> "AttributeError",
     msg |-> <<"'">> (* "'" *)
             \o (IF kind = "array" THEN <<"l","i","s","t">> (* "list" *)
                 ELSE IF kind = "null" THEN <<"N","o","n","e","T","y","p","e">> (* "NoneType" *)
                 ELSE IF kind = "string" THEN <<"s","t","r">> (* "str" *)
                 ELSE IF kind = "boolean" THEN <<"b","o","o","l">> (* "bool" *)
                 ELSE IF kind = "real" THEN <<"f","l","o","a","t">> (* "float" *)
                 ELSE <<"i","n","t">> (* "int" *))
             \o <<"'"," ","o","b","j","e","c","t"," ","h","a","s"," ","n","o"," ","a","t","t","r","i","b","u","t","e"," ","'","g","e","t","'">> (* "' object has no attribute 'get'" *)]

\* function_args, the dict parsed from the arguments. Its keys come in two parts:
\* a record of the keys whose JSON value has the type the field declares (None:
\* the key is missing or null), and a sequence `extra` of the keys whose value
\* has another JSON type, each [loc |-> key, input |-> value]. A key is in one
\* part only. Such a value is a string, an integer or a list of strings; t is
\* its type and the field of that name holds it:
JStr(s) == [t |-> "str", str |-> s, int |-> 0, list |-> <<>>]
JInt(n) == [t |-> "int", str |-> <<>>, int |-> n, list |-> <<>>]
JList(l) == [t |-> "list", str |-> <<>>, int |-> 0, list |-> l]
JsonArg(loc, input) == [loc |-> loc, input |-> input]

\* scraper.py:244-253 on the keys of extra: a url or shortCode whose value is
\* falsy is overwritten where BackfillArgs fills the key in, so it leaves extra;
\* a truthy one stays and stands for the key
BackfillExtra(extra, url) ==
    LET \* bool(x) of a value
        Truthy(j) == IF j.t = "int" THEN j.int # 0
                     ELSE IF j.t = "str" THEN j.str # <<>>
                     ELSE j.list # <<>>
    IN SelectSeq(extra, LAMBDA e :
           ~ \/ e.loc = "url" /\ ~Truthy(e.input)
             \/ /\ e.loc = "shortCode" /\ ~Truthy(e.input)
                /\ Contains(<<"/","p","/">> (* "/p/" *), url) /\ ShortCodeMatch(url) # None)

\* models.py:7-24, the fields of InstagramPost in the order of their declaration
FieldNames ==
    <<"caption", "type", "url", "videoUrl", "imageUrl", "displayUrl", "shortCode",
      "timestamp", "likesCount", "commentsCount", "videoViewCount",
      "videoPlayCount", "ownerUsername", "ownerFullName", "locationName",
      "hashtags", "mentions", "alt">>
FieldText ==
    [caption |-> <<"c","a","p","t","i","o","n">> (* "caption" *), type |-> <<"t","y","p","e">> (* "type" *), url |-> <<"u","r","l">> (* "url" *),
     videoUrl |-> <<"v","i","d","e","o","U","r","l">> (* "videoUrl" *), imageUrl |-> <<"i","m","a","g","e","U","r","l">> (* "imageUrl" *),
     displayUrl |-> <<"d","i","s","p","l","a","y","U","r","l">> (* "displayUrl" *), shortCode |-> <<"s","h","o","r","t","C","o","d","e">> (* "shortCode" *),
     timestamp |-> <<"t","i","m","e","s","t","a","m","p">> (* "timestamp" *), likesCount |-> <<"l","i","k","e","s","C","o","u","n","t">> (* "likesCount" *),
     commentsCount |-> <<"c","o","m","m","e","n","t","s","C","o","u","n","t">> (* "commentsCount" *), videoViewCount |-> <<"v","i","d","e","o","V","i","e","w","C","o","u","n","t">> (* "videoViewCount" *),
     videoPlayCount |-> <<"v","i","d","e","o","P","l","a","y","C","o","u","n","t">> (* "videoPlayCount" *), ownerUsername |-> <<"o","w","n","e","r","U","s","e","r","n","a","m","e">> (* "ownerUsername" *),
     ownerFullName |-> <<"o","w","n","e","r","F","u","l","l","N","a","m","e">> (* "ownerFullName" *), locationName |-> <<"l","o","c","a","t","i","o","n","N","a","m","e">> (* "locationName" *),
     hashtags |-> <<"h","a","s","h","t","a","g","s">> (* "hashtags" *), mentions |-> <<"m","e","n","t","i","o","n","s">> (* "mentions" *), alt |-> <<"a","l","t">> (* "alt" *)]
\* models.py:15-18 Optional[int]; models.py:22-23 Optional[List[str]]; the
\* other fields are Optional[str]
FieldType(f) ==
    IF f \in {"likesCount", "commentsCount", "videoViewCount", "videoPlayCount"}
    THEN "int"
    ELSE IF f \in {"hashtags", "mentions"} THEN "list"
    ELSE "str"

\* str(n) of an int
IntText(n) ==
    LET RECURSIVE NatText(_)
        NatText(k) == IF k < 10 THEN <<Digits[k + 1]>>
                      ELSE NatText(k \div 10) \o <<Digits[(k % 10) + 1]>>
    IN IF n < 0 THEN <<"-">> (* "-" *) \o NatText(-n) ELSE NatText(n)

\* the characters str.isprintable() turns down among the characters a string of
\* this module can hold (U+0001..U+00FF), each with its code point; tab, newline and carriage
\* return, which repr writes \t, \n and \r, are not listed
Unprintable ==
    { <<"", 1>>, <<"", 2>>, <<"", 3>>, <<"", 4>>, <<"", 5>>, <<"", 6>>,
      <<"", 7>>, <<"", 8>>, <<"", 11>>, <<"\f", 12>>, <<"", 14>>, <<"", 15>>, <<"", 16>>,
      <<"", 17>>, <<"", 18>>, <<"", 19>>, <<"", 20>>, <<"", 21>>, <<"", 22>>, <<"", 23>>,
      <<"", 24>>, <<"", 25>>, <<"", 26>>, <<"", 27>>, <<"", 28>>, <<"", 29>>, <<"", 30>>,
      <<"", 31>>, <<"", 127>>, <<"", 128>>, <<"", 129>>, <<"", 130>>, <<"", 131>>, <<"", 132>>,
      <<"", 133>>, <<"", 134>>, <<"", 135>>, <<"", 136>>, <<"", 137>>, <<"", 138>>, <<"", 139>>,
      <<"", 140>>, <<"", 141>>, <<"", 142>>, <<"", 143>>, <<"", 144>>, <<"", 145>>, <<"", 146>>,
      <<"", 147>>, <<"", 148>>, <<"", 149>>, <<"", 150>>, <<"", 151>>, <<"", 152>>, <<"", 153>>,
      <<"", 154>>, <<"", 155>>, <<"", 156>>, <<"", 157>>, <<"", 158>>, <<"", 159>>, <<" ", 160>>,
      <<"­", 173>> }

\* the printable characters from U+00A1 on: UTF-8 encodes each in two bytes
\* and every other character of this module in one
Wide ==
    { "¡", "¢", "£", "¤", "¥", "¦", "§", "¨", "©", "ª", "«", "¬", "®", "¯", "°", "±",
      "²", "³", "´", "µ", "¶", "·", "¸", "¹", "º", "»", "¼", "½", "¾", "¿", "À", "Á",
      "Â", "Ã", "Ä", "Å", "Æ", "Ç", "È", "É", "Ê", "Ë", "Ì", "Í", "Î", "Ï", "Ð", "Ñ",
      "Ò", "Ó", "Ô", "Õ", "Ö", "×", "Ø", "Ù", "Ú", "Û", "Ü", "Ý", "Þ", "ß", "à", "á",
      "â", "ã", "ä", "å", "æ", "ç", "è", "é", "ê", "ë", "ì", "í", "î", "ï", "ð", "ñ",
      "ò", "ó", "ô", "õ", "ö", "÷", "ø", "ù", "ú", "û", "ü", "ý", "þ", "ÿ" }

\* repr of a JSON value, as pydantic prints input_value. repr(s) of a str:
\* single quotes, unless s holds a single quote and no double quote; the quote
\* in use and the backslash are escaped, newline, carriage return and tab are
\* written \n, \r and \t, and any other unprintable character \xNN. repr(l)
\* of a list: its items between brackets. pydantic shortens a repr of more than
\* 50 bytes of UTF-8 to the characters that fit into its first 25 bytes, three
\* dots, and the characters that fit into its last 24 bytes.
ReprJson(j) ==
    LET Hex == <<"0","1","2","3","4","5","6","7","8","9","a","b","c","d","e","f">> (* "0123456789abcdef" *)
        ReprStr(s) ==
            LET chars == {s[i] : i \in DOMAIN s}
                quote == IF "'" \in chars /\ "\"" \notin chars THEN "\"" ELSE "'"
                Escaped(c) ==
                    IF c = quote \/ c = "\\" THEN <<"\\", c>>
                    ELSE IF c = "\n" THEN <<"\\","n">> (* "\\n" *)
                    ELSE IF c = "\r" THEN <<"\\","r">> (* "\\r" *)
                    ELSE IF c = "\t" THEN <<"\\","t">> (* "\\t" *)
                    ELSE IF \E u \in Unprintable : u[1] = c
                    THEN LET ord == (CHOOSE u \in Unprintable : u[1] = c)[2]
                         IN <<"\\", "x", Hex[(ord \div 16) + 1], Hex[(ord % 16) + 1]>>
                    ELSE <<c>>
                RECURSIVE Body(_, _)
                Body(lo, hi) ==
                    IF lo > hi THEN <<>>
                    ELSE IF lo = hi THEN Escaped(s[lo])
                    ELSE Body(lo, (lo + hi) \div 2) \o Body(((lo + hi) \div 2) + 1, hi)
            IN <<quote>> \o Body(1, Len(s)) \o <<quote>>
        ReprList(l) ==
            LET items[i \in 0..Len(l)] ==
                    IF i = 0 THEN <<>>
                    ELSE items[i - 1] \o (IF i = 1 THEN <<>> ELSE <<","," ">> (* ", " *)) \o ReprStr(l[i])
            IN <<"[">> (* "[" *) \o items[Len(l)] \o <<"]">> (* "]" *)
        \* the number of bytes of the first i characters of repr
        Size(repr, i) == i + Cardinality({k \in 1..i : repr[k] \in Wide})
        Shortened(repr) ==
            LET total == Size(repr, Len(repr))
                head == CHOOSE i \in 0..Len(repr) :
                            /\ Size(repr, i) <= 25
                            /\ i < Len(repr) => Size(repr, i + 1) > 25
                tail == CHOOSE i \in 0..Len(repr) :
                            /\ total - Size(repr, i) <= 24
                            /\ i > 0 => total - Size(repr, i - 1) > 24
            IN IF total <= 50 THEN repr
               ELSE SubSeq(repr, 1, head) \o <<".",".",".">> (* "..." *) \o SubSeq(repr, tail + 1, Len(repr))
    IN Shortened(IF j.t = "str" THEN ReprStr(j.str)
                 ELSE IF j.t = "int" THEN IntText(j.int)
                 ELSE ReprList(j.list))

\* pydantic's conversion of a str given for an int field: None when the string
\* is not an integer. White space around the text is dropped, then one sign. A
\* leading zero is dropped with the zeros and underscores that follow it, up to
\* a digit, a minus sign or the zero before a dot. A fraction of one or more
\* zeros is dropped. Underscores are dropped unless one is first, last or next to
\* another. What is left, behind the sign, has to be a decimal number with an
\* optional minus sign and, unless it is 0, no leading zero. (A Python int has
\* no bound; the value here is an integer TLC can hold.)
StrAsInt(s) ==
    LET white == {"\t", "\n", "", "\f", "\r", " ", "", " "}
        IsDigit(c) == \E d \in 1..10 : Digits[d] = c
        Trimmed(t) ==
            LET first == CHOOSE i \in 1..(Len(t) + 1) :
                            /\ i = Len(t) + 1 \/ t[i] \notin white
                            /\ \A k \in 1..(i - 1) : t[k] \in white
                last == CHOOSE j \in 0..Len(t) :
                            /\ j = 0 \/ t[j] \notin white
                            /\ \A k \in (j + 1)..Len(t) : t[k] \in white
            IN SubSeq(t, first, last)
        \* the end of the run of zeros and underscores
        Stop(unsigned) ==
            CHOOSE i \in 1..(Len(unsigned) + 1) :
                /\ i = Len(unsigned) + 1 \/ unsigned[i] \notin {"0", "_"}
                /\ \A k \in 1..(i - 1) : unsigned[k] \in {"0", "_"}
        Leading(unsigned) == unsigned # <<>> /\ unsigned[1] = "0"
        Started(unsigned, stop) ==
            /\ unsigned # <<>> /\ IsDigit(unsigned[1])
            /\ (Leading(unsigned) /\ stop <= Len(unsigned))
                  => IsDigit(unsigned[stop]) \/ unsigned[stop] \in {"-", "."}
        Stripped(unsigned, stop) ==
            IF ~Leading(unsigned) THEN unsigned
            ELSE IF stop = Len(unsigned) + 1 THEN <<unsigned[Len(unsigned)]>>
            ELSE IF unsigned[stop] = "."
            THEN SubSeq(unsigned, stop - 1, Len(unsigned))
            ELSE SubSeq(unsigned, stop, Len(unsigned))
        Dot(stripped) ==
            LET dots == {i \in DOMAIN stripped : stripped[i] = "."}
            IN IF dots = {} THEN Len(stripped) + 1
               ELSE CHOOSE i \in dots : \A k \in dots : i <= k
        Whole(stripped, dot) ==
            LET fraction == SubSeq(stripped, dot + 1, Len(stripped))
            IN IF fraction # <<>> /\ \A i \in DOMAIN fraction : fraction[i] = "0"
               THEN SubSeq(stripped, 1, dot - 1)
               ELSE stripped
        Separated(whole) ==
            /\ whole # <<>> /\ whole[1] # "_" /\ whole[Len(whole)] # "_"
            /\ \A i \in 1..(Len(whole) - 1) : ~(whole[i] = "_" /\ whole[i + 1] = "_")
        Cleaned(whole) ==
            IF Separated(whole) THEN SelectSeq(whole, LAMBDA c : c # "_") ELSE whole
        WellFormed(digits) ==
            /\ digits # <<>>
            /\ \A i \in DOMAIN digits : IsDigit(digits[i])
            /\ Len(digits) > 1 => digits[1] # "0"
        Value(digits) ==
            LET value[i \in 0..Len(digits)] ==
                    IF i = 0 THEN 0
                    ELSE 10 * value[i - 1]
                         + (CHOOSE d \in 0..9 : Digits[d + 1] = digits[i])
            IN value[Len(digits)]
        Number(negative, digits, started) ==
            IF ~(started /\ WellFormed(digits)) THEN None
            ELSE Some(IF negative THEN -Value(digits) ELSE Value(digits))
        Signed(cleaned, started) ==
            IF cleaned # <<>> /\ cleaned[1] = "-"
            THEN Number(TRUE, Tail(cleaned), started)
            ELSE Number(FALSE, cleaned, started)
        Digital(sign, stripped, started) ==
            Signed(sign \o Cleaned(Whole(stripped, Dot(stripped))), started)
        Unsigned(sign, unsigned) ==
            Digital(sign, Stripped(unsigned, Stop(unsigned)),
                    Started(unsigned, Stop(unsigned)))
        Parsed(trimmed) ==
            IF trimmed # <<>> /\ trimmed[1] \in {"+", "-"}
            THEN Unsigned(IF trimmed[1] = "-" THEN <<"-">> ELSE <<>>, Tail(trimmed))
            ELSE Unsigned(<<>>, trimmed)
    IN Parsed(Trimmed(s))

\* one entry of str(ValidationError): the field, what was expected of it, the
\* input and the page of pydantic's documentation (models.py:1, pydantic 2.13)
ErrorText(e) ==
    LET ErrorType ==
            IF FieldType(e.loc) = "int"
            THEN (IF e.input.t = "str" THEN <<"i","n","t","_","p","a","r","s","i","n","g">> (* "int_parsing" *) ELSE <<"i","n","t","_","t","y","p","e">> (* "int_type" *))
            ELSE IF FieldType(e.loc) = "list" THEN <<"l","i","s","t","_","t","y","p","e">> (* "list_type" *)
            ELSE <<"s","t","r","i","n","g","_","t","y","p","e">> (* "string_type" *)
        ErrorMessage ==
            IF FieldType(e.loc) = "int"
            THEN (IF e.input.t = "str"
                  THEN <<"I","n","p","u","t"," ","s","h","o","u","l","d"," ","b","e"," ","a"," ","v","a","l","i","d"," ","i","n","t","e","g","e","r",","," ","u","n","a","b","l","e"," ","t","o"," ","p","a","r","s","e"," ","s","t","r","i","n","g"," ","a","s"," ","a","n"," ","i","n","t","e","g","e","r">> (* "Input should be a valid integer, unable to parse string as an integer" *)
                  ELSE <<"I","n","p","u","t"," ","s","h","o","u","l","d"," ","b","e"," ","a"," ","v","a","l","i","d"," ","i","n","t","e","g","e","r">> (* "Input should be a valid integer" *))
            ELSE IF FieldType(e.loc) = "list" THEN <<"I","n","p","u","t"," ","s","h","o","u","l","d"," ","b","e"," ","a"," ","v","a","l","i","d"," ","l","i","s","t">> (* "Input should be a valid list" *)
            ELSE <<"I","n","p","u","t"," ","s","h","o","u","l","d"," ","b","e"," ","a"," ","v","a","l","i","d"," ","s","t","r","i","n","g">> (* "Input should be a valid string" *)
        input_type == IF e.input.t = "str" THEN <<"s","t","r">> (* "str" *)
                      ELSE IF e.input.t = "int" THEN <<"i","n","t">> (* "int" *)
                      ELSE <<"l","i","s","t">> (* "list" *)
    IN FieldText[e.loc] \o <<"\n"," "," ">> (* "\n  " *) \o ErrorMessage
       \o <<" ","[","t","y","p","e","=">> (* " [type=" *) \o ErrorType
       \o <<","," ","i","n","p","u","t","_","v","a","l","u","e","=">> (* ", input_value=" *) \o ReprJson(e.input)
       \o <<","," ","i","n","p","u","t","_","t","y","p","e","=">> (* ", input_type=" *) \o input_type
       \o <<"]","\n"," "," "," "," ","F","o","r"," ","f","u","r","t","h","e","r"," ","i","n","f","o","r","m","a","t","i","o","n"," ","v","i","s","i","t"," ","h","t","t","p","s",":","/","/","e","r","r","o","r","s",".","p","y","d","a","n","t","i","c",".","d","e","v","/","2",".","1","3","/","v","/">> (* "]\n    For further information visit https://errors.pydantic.dev/2.13/v/" *)
       \o ErrorType

\* the values InstagramPost(**function_args) turns down, in the order of the
\* fields: an int field takes a str that is an integer, nothing else is
\* converted
ValidationErrors(extra) ==
    LET Rejected(e) ==
            ~(FieldType(e.loc) = "int" /\ e.input.t = "str"
              /\ StrAsInt(e.input.str) # None)
        of_field[i \in 0..Len(FieldNames)] ==
            IF i = 0 THEN <<>>
            ELSE of_field[i - 1]
                 \o SelectSeq(extra, LAMBDA e : e.loc = FieldNames[i] /\ Rejected(e))
    IN of_field[Len(FieldNames)]

\* str() of the pydantic ValidationError raised by InstagramPost(**function_args)
ValidationError(errors) ==
    LET lines[i \in 0..Len(errors)] ==
            IF i = 0 THEN <<>> ELSE lines[i - 1] \o <<"\n">> (* "\n" *) \o ErrorText(errors[i])
    IN [type |-> "ValidationError",
        msg |-> IntText(Len(errors))
                \o (IF Len(errors) = 1 THEN <<" ","v","a","l","i","d","a","t","i","o","n"," ","e","r","r","o","r">> (* " validation error" *)
                    ELSE <<" ","v","a","l","i","d","a","t","i","o","n"," ","e","r","r","o","r","s">> (* " validation errors" *))
                \o <<" ","f","o","r"," ","I","n","s","t","a","g","r","a","m","P","o","s","t">> (* " for InstagramPost" *) \o lines[Len(errors)]]

\* models.py:5-24, InstagramPost(**function_args) when no value is turned down:
\* the record of the fields, with the integers read from strings
RECURSIVE InstagramPost(_, _)
InstagramPost(function_args, extra) ==
    IF extra = <<>> THEN function_args
    ELSE InstagramPost([function_args EXCEPT
                           ![Head(extra).loc] = Some(Val(StrAsInt(Head(extra).input.str)))],
                       Tail(extra))

\* scraper.py:241-258: the call returned a function call whose arguments are a
\* JSON object that InstagramPost accepts, so the normalizer runs
ReachesNormalizer(r, url) ==
    /\ ~r.raises /\ r.function_call /\ r.json = "object"
    /\ ValidationErrors(BackfillExtra(r.extra, url)) = <<>>

\* scraper.py:202, the number of characters of the content put into the prompt
ContentLimit == 4000

\* Faulty variant of UserPrompt: the whole content is put into the message.
UserPrompt_Whole(content, url) ==
    <<"P","l","e","a","s","e"," ","a","n","a","l","y","z","e"," ","t","h","i","s"," ","I","n","s","t","a","g","r","a","m"," ","p","o","s","t"," ","c","o","n","t","e","n","t"," ","a","n","d"," ","e","x","t","r","a","c","t"," ","t","h","e"," ","s","t","r","u","c","t","u","r","e","d"," ","d","a","t","a",":","\n","\n","U","R","L",":"," ">> (* "Please analyze this Instagram post content and extract the structured data:\n\nURL: " *)
    \o url \o <<"\n","\n","C","o","n","t","e","n","t",":","\n">> (* "\n\nContent:\n" *)
    \o content
    \o <<" "," ","#"," ","L","i","m","i","t"," ","c","o","n","t","e","n","t"," ","t","o"," ","a","v","o","i","d"," ","t","o","k","e","n"," ","l","i","m","i","t","s","\n","\n","E","x","t","r","a","c","t"," ","a","l","l"," ","t","h","e"," ","a","v","a","i","l","a","b","l","e"," ","i","n","f","o","r","m","a","t","i","o","n"," ","a","n","d"," ","r","e","t","u","r","n"," ","a","s"," ","J","S","O","N"," ","m","a","t","c","h","i","n","g"," ","t","h","e"," ","s","c","h","e","m","a","."," ","F","o","c","u","s"," ","o","n"," ","a","c","c","u","r","a","c","y"," ","o","v","e","r"," ","c","o","m","p","l","e","t","e","n","e","s","s",".">> (* "  # Limit content to avoid token limits\n\nExtract all the available information and return as JSON matching the schema. Focus on accuracy over completeness." *)

\* scraper.py:197-204: the user message of the chat completion call, with the
\* slice content[:4000]
UserPrompt(content, url) ==
    <<"P","l","e","a","s","e"," ","a","n","a","l","y","z","e"," ","t","h","i","s"," ","I","n","s","t","a","g","r","a","m"," ","p","o","s","t"," ","c","o","n","t","e","n","t"," ","a","n","d"," ","e","x","t","r","a","c","t"," ","t","h","e"," ","s","t","r","u","c","t","u","r","e","d"," ","d","a","t","a",":","\n","\n","U","R","L",":"," ">> (* "Please analyze this Instagram post content and extract the structured data:\n\nURL: " *)
    \o url \o <<"\n","\n","C","o","n","t","e","n","t",":","\n">> (* "\n\nContent:\n" *)
    \o SubSeq(content, 1, IF Len(content) < ContentLimit THEN Len(content) ELSE ContentLimit)
    \o <<" "," ","#"," ","L","i","m","i","t"," ","c","o","n","t","e","n","t"," ","t","o"," ","a","v","o","i","d"," ","t","o","k","e","n"," ","l","i","m","i","t","s","\n","\n","E","x","t","r","a","c","t"," ","a","l","l"," ","t","h","e"," ","a","v","a","i","l","a","b","l","e"," ","i","n","f","o","r","m","a","t","i","o","n"," ","a","n","d"," ","r","e","t","u","r","n"," ","a","s"," ","J","S","O","N"," ","m","a","t","c","h","i","n","g"," ","t","h","e"," ","s","c","h","e","m","a","."," ","F","o","c","u","s"," ","o","n"," ","a","c","c","u","r","a","c","y"," ","o","v","e","r"," ","c","o","m","p","l","e","t","e","n","e","s","s",".">> (* "  # Limit content to avoid token limits\n\nExtract all the available information and return as JSON matching the schema. Focus on accuracy over completeness." *)

\* r is what the chat completion call did: it raised r.exc, or returned a response
\* without a function call, or with one whose arguments are not JSON, are JSON
\* of the kind r.json, or are the object r.args with r.extra
_parse_with_openai(content, url, r) ==
    IF r.raises
    THEN IF r.exc.type = "JSONDecodeError" THEN Raise(JSONDecodeErrorHandler)
         ELSE Raise(ClassifyOpenAIError(r.exc))
    ELSE IF r.function_call
         THEN IF r.json = "invalid" THEN Raise(JSONDecodeErrorHandler)
              ELSE IF r.json # "object"
              THEN Raise(ClassifyOpenAIError(AttributeError(r.json)))
              ELSE LET function_args == BackfillArgs(r.args, url)
                       extra == BackfillExtra(r.extra, url)
                       errors == ValidationErrors(extra)
                   IN IF errors # <<>>
                      THEN Raise(ClassifyOpenAIError(ValidationError(errors)))
                      ELSE Return(Some(_prioritize_video_content(
                                           InstagramPost(function_args, extra))))
         ELSE Raise(ClassifyOpenAIError(NoFunctionCallError))

-----------------------------------------------------------------------------
(* scrape_instagram_post: the orchestrator *)

\* scraper.py:42-44
NoContentError == Exception(<<"F","a","i","l","e","d"," ","t","o"," ","r","e","t","r","i","e","v","e"," ","c","o","n","t","e","n","t"," ","f","r","o","m"," ","I","n","s","t","a","g","r","a","m">> (* "Failed to retrieve content from Instagram" *))
\* scraper.py:51-53
NoParsedDataError == Exception(<<"F","a","i","l","e","d"," ","t","o"," ","p","a","r","s","e"," ","I","n","s","t","a","g","r","a","m"," ","c","o","n","t","e","n","t">> (* "Failed to parse Instagram content" *))

\* Faulty variant of AfterFetch: the null result is reported as a fetch failure.
AfterFetch_NullAsUnavailable(retried) ==
    IF retried.kind = "raise" THEN Raise(retried.exc)
    ELSE IF ~TruthyStr(retried.value)
    THEN Raise(Exception(<<"F","a","i","l","e","d"," ","t","o"," ","a","c","c","e","s","s"," ","I","n","s","t","a","g","r","a","m"," ","p","o","s","t",":"," ","n","o"," ","c","o","n","t","e","n","t">> (* "Failed to access Instagram post: no content" *)))
    ELSE [kind |-> "continue", value |-> retried.value, exc |-> NoException]

\* Faulty variant of AfterFetch: the check of scraped_content is missing.
AfterFetch_NoGate(retried) ==
    IF retried.kind = "raise" THEN Raise(retried.exc)
    ELSE [kind |-> "continue", value |-> retried.value, exc |-> NoException]

\* Faulty variant of AfterFetch: the null result is handed back to the caller.
AfterFetch_ReturnsNone(retried) ==
    IF retried.kind = "raise" THEN Raise(retried.exc)
    ELSE IF ~TruthyStr(retried.value) THEN Return(None)
    ELSE [kind |-> "continue", value |-> retried.value, exc |-> NoException]

\* Faulty variant of AfterFetch: the orchestrator wraps the error it is given.
AfterFetch_Wraps(retried) ==
    IF retried.kind = "raise"
    THEN Raise(Exception(<<"S","c","r","a","p","i","n","g"," ","f","a","i","l","e","d",":"," ">> (* "Scraping failed: " *) \o retried.exc.msg))
    ELSE IF ~TruthyStr(retried.value) THEN Raise(NoContentError)
    ELSE [kind |-> "continue", value |-> retried.value, exc |-> NoException]

\* scraper.py:40-44 and 58-60: what the orchestrator does with the retry
\* controller's result; "continue" is going on to step 2
AfterFetch(retried) ==
    IF retried.kind = "raise" THEN Raise(retried.exc)
    ELSE IF ~TruthyStr(retried.value) THEN Raise(NoContentError)
    ELSE [kind |-> "continue", value |-> retried.value, exc |-> NoException]

\* scraper.py:49-60: what the orchestrator does with the extractor adapter's result
AfterParse(parsed) ==
    IF parsed.kind = "raise" THEN Raise(parsed.exc)
    ELSE IF parsed.value = None THEN Raise(NoParsedDataError)
    ELSE Return(parsed.value)

\* the pipeline was cancelled by asyncio.wait_for before it ended
Cancelled == [kind |-> "cancelled", value |-> None, exc |-> NoException]
Pending == [kind |-> "pending", value |-> None, exc |-> NoException]

-----------------------------------------------------------------------------
(* scrape_instagram and _handle_scraping_error: the service *)

NoResponse == [status |-> 0, success |-> FALSE, error |-> "", data |-> None]
ErrorResponse(status, text) ==
    [status |-> status, success |-> FALSE, error |-> text, data |-> None]

\* Faulty variant of _handle_scraping_error: the OpenAI keywords are tested first.
_handle_scraping_error_OpenAIFirst(error) ==
    LET error_message == Lower(error.msg)
    IN IF ContainsAny({<<"o","p","e","n","a","i">> (* "openai" *), <<"a","p","i"," ","k","e","y">> (* "api key" *), <<"q","u","o","t","a">> (* "quota" *), <<"b","i","l","l","i","n","g">> (* "billing" *)}, error_message)
       THEN ErrorResponse(503, "AI processing service is temporarily unavailable")
       ELSE IF ContainsAny({<<"p","r","i","v","a","t","e">> (* "private" *), <<"n","o","t"," ","f","o","u","n","d">> (* "not found" *), <<"4","0","4">> (* "404" *), <<"a","c","c","e","s","s"," ","d","e","n","i","e","d">> (* "access denied" *)}, error_message)
       THEN ErrorResponse(404, "Instagram post is private, deleted, or not accessible")
       ELSE IF ContainsAny({<<"r","a","t","e"," ","l","i","m","i","t">> (* "rate limit" *), <<"b","l","o","c","k","e","d">> (* "blocked" *), <<"t","o","o"," ","m","a","n","y"," ","r","e","q","u","e","s","t","s">> (* "too many requests" *)}, error_message)
       THEN ErrorResponse(429, "Instagram is rate limiting requests. Please try again later.")
       ELSE IF ContainsAny({<<"n","e","t","w","o","r","k">> (* "network" *), <<"c","o","n","n","e","c","t","i","o","n">> (* "connection" *), <<"t","i","m","e","o","u","t">> (* "timeout" *)}, error_message)
       THEN ErrorResponse(503, "Network error occurred. Please try again.")
       ELSE ErrorResponse(500, "An error occurred during scraping")

\* app.py:200-236
_handle_scraping_error(error) ==
    LET error_message == Lower(error.msg)
    IN IF ContainsAny({<<"p","r","i","v","a","t","e">> (* "private" *), <<"n","o","t"," ","f","o","u","n","d">> (* "not found" *), <<"4","0","4">> (* "404" *), <<"a","c","c","e","s","s"," ","d","e","n","i","e","d">> (* "access denied" *)}, error_message)
       THEN ErrorResponse(404, "Instagram post is private, deleted, or not accessible")
       ELSE IF ContainsAny({<<"r","a","t","e"," ","l","i","m","i","t">> (* "rate limit" *), <<"b","l","o","c","k","e","d">> (* "blocked" *), <<"t","o","o"," ","m","a","n","y"," ","r","e","q","u","e","s","t","s">> (* "too many requests" *)}, error_message)
       THEN ErrorResponse(429, "Instagram is rate limiting requests. Please try again later.")
       ELSE IF ContainsAny({<<"o","p","e","n","a","i">> (* "openai" *), <<"a","p","i"," ","k","e","y">> (* "api key" *), <<"q","u","o","t","a">> (* "quota" *), <<"b","i","l","l","i","n","g">> (* "billing" *)}, error_message)
       THEN ErrorResponse(503, "AI processing service is temporarily unavailable")
       ELSE IF ContainsAny({<<"n","e","t","w","o","r","k">> (* "network" *), <<"c","o","n","n","e","c","t","i","o","n">> (* "connection" *), <<"t","i","m","e","o","u","t">> (* "timeout" *)}, error_message)
       THEN ErrorResponse(503, "Network error occurred. Please try again.")
       ELSE ErrorResponse(500, "An error occurred during scraping")

\* app.py:153-158
TimeoutResponse ==
    ErrorResponse(408, "Scraping timeout. The request took too long to process.")

\* app.py:141-179: the response for the way the pipeline ended
ScrapeResponse(outcome) ==
    IF outcome.kind = "cancelled" THEN TimeoutResponse
    ELSE IF outcome.kind = "raise"
    THEN IF outcome.exc.type = "TimeoutError" THEN TimeoutResponse
         ELSE _handle_scraping_error(outcome.exc)
    ELSE IF outcome.value = None
    THEN ErrorResponse(404, "Unable to extract data from Instagram post. The post may be private or inaccessible.")
    ELSE [status |-> 200, success |-> TRUE, error |-> "", data |-> outcome.value]

-----------------------------------------------------------------------------
(* Inputs: what the two external collaborators can do *)

Rep(c, n) == [i \in 1..n |-> c]

ArunRaises(e) ==
    [raises |-> TRUE, exc |-> e, success |-> FALSE, markdown |-> None,
     media |-> <<>>, error_message |-> None]
ArunSuccess(markdown, media) ==
    [raises |-> FALSE, exc |-> NoException, success |-> TRUE, markdown |-> markdown,
     media |-> media, error_message |-> None]
ArunFailure(error_message) ==
    [raises |-> FALSE, exc |-> NoException, success |-> FALSE, markdown |-> None,
     media |-> <<>>, error_message |-> error_message]

\* result.media items: url is the item's url attribute, type its type attribute
VideoMedia == [url |-> Some(<<"h","t","t","p","s",":","/","/","c","d","n",".","e","x","a","m","p","l","e","/","v","/","c","l","i","p",".","m","p","4">> (* "https://cdn.example/v/clip.mp4" *)),
               has_type |-> TRUE, type |-> Some(<<"v","i","d","e","o">> (* "video" *))]
\* an item without a type attribute
UntypedMedia == [url |-> Some(<<"h","t","t","p","s",":","/","/","c","d","n",".","e","x","a","m","p","l","e","/","i","/","a",".","j","p","g">> (* "https://cdn.example/i/a.jpg" *)),
                 has_type |-> FALSE, type |-> None]
\* an item whose type attribute is there and holds None
NoneTypeMedia == [url |-> Some(<<"h","t","t","p","s",":","/","/","c","d","n",".","e","x","a","m","p","l","e","/","i","/","b",".","j","p","g">> (* "https://cdn.example/i/b.jpg" *)),
                  has_type |-> TRUE, type |-> None]
\* an item without a url
NoUrlMedia == [url |-> None, has_type |-> TRUE, type |-> Some(<<"i","m","a","g","e">> (* "image" *))]

\* crawler.arun outcomes: usable content, content under the length gate,
\* failure results of every class, and exceptions raised by the call itself
UsableOutcomes ==
    { ArunSuccess(Some(<<"*","*","t","e","s","t","u","s","e","r","*","*"," ","T","e","s","t"," ","p","o","s","t"," ">> (* "**testuser** Test post " *) \o Rep("x", 100)), <<>>),
      ArunSuccess(Some(Rep("y", 100)), <<VideoMedia, NoUrlMedia, UntypedMedia, NoneTypeMedia>>) }
TooShortOutcomes ==
    { ArunSuccess(Some(<<"S","h","o","r","t">> (* "Short" *)), <<>>),
      ArunSuccess(None, <<>>),
      ArunSuccess(Some(<<>>), <<>>),
      ArunSuccess(Some(<<" "," ">> (* "  " *) \o Rep("x", 99) \o <<" ","\n">> (* " \n" *)), <<VideoMedia>>) }
FailureOutcomes ==
    { ArunFailure(Some(<<"4","0","4"," ","-"," ","P","a","g","e"," ","n","o","t"," ","f","o","u","n","d">> (* "404 - Page not found" *))),
      ArunFailure(Some(<<"4","0","3"," ","-"," ","F","o","r","b","i","d","d","e","n">> (* "403 - Forbidden" *))),
      ArunFailure(Some(<<"4","2","9"," ","-"," ","T","o","o"," ","M","a","n","y"," ","R","e","q","u","e","s","t","s">> (* "429 - Too Many Requests" *))),
      ArunFailure(Some(<<"P","a","g","e"," ","N","o","t"," ","F","o","u","n","d",":"," ","4","0","3">> (* "Page Not Found: 403" *))),
      ArunFailure(Some(<<"A","c","c","o","u","n","t"," ","i","s"," ","p","r","i","v","a","t","e">> (* "Account is private" *))),
      ArunFailure(None) }
RaisingOutcomes ==
    { ArunRaises(Exception(<<"N","e","t","w","o","r","k"," ","e","r","r","o","r">> (* "Network error" *))),
      ArunRaises([type |-> "TimeoutError", msg |-> <<>>]) }
FetchOutcomes ==
    UsableOutcomes \cup TooShortOutcomes \cup FailureOutcomes \cup RaisingOutcomes

CreateRaises(e) ==
    [raises |-> TRUE, exc |-> e, function_call |-> FALSE, json |-> "none",
     args |-> EmptyPost, extra |-> <<>>]
CreateNoFunctionCall ==
    [raises |-> FALSE, exc |-> NoException, function_call |-> FALSE, json |-> "none",
     args |-> EmptyPost, extra |-> <<>>]
CreateInvalidJson ==
    [raises |-> FALSE, exc |-> NoException, function_call |-> TRUE, json |-> "invalid",
     args |-> EmptyPost, extra |-> <<>>]
\* arguments that are JSON of another kind than an object
CreateNonObject(kind) ==
    [raises |-> FALSE, exc |-> NoException, function_call |-> TRUE, json |-> kind,
     args |-> EmptyPost, extra |-> <<>>]
CreateObject(args, extra) ==
    [raises |-> FALSE, exc |-> NoException, function_call |-> TRUE, json |-> "object",
     args |-> args, extra |-> extra]

\* chat.completions.create outcomes
ExtractorOutcomes ==
    { CreateRaises(Exception(<<"I","n","v","a","l","i","d"," ","A","P","I"," ","k","e","y">> (* "Invalid API key" *))),
      CreateRaises(Exception(<<"Q","u","o","t","a"," ","e","x","c","e","e","d","e","d"," ","f","o","r"," ","b","i","l","l","i","n","g">> (* "Quota exceeded for billing" *))),
      CreateRaises(Exception(<<"R","a","t","e"," ","l","i","m","i","t"," ","e","x","c","e","e","d","e","d">> (* "Rate limit exceeded" *))),
      CreateRaises(Exception(<<"C","o","n","n","e","c","t","i","o","n"," ","e","r","r","o","r">> (* "Connection error" *))),
      CreateRaises(Exception(<<"T","h","e"," ","m","o","d","e","l"," ","w","a","s"," ","n","o","t"," ","f","o","u","n","d">> (* "The model was not found" *))),
      CreateNoFunctionCall,
      CreateInvalidJson,
      CreateRaises([type |-> "JSONDecodeError",
                    msg |-> <<"E","x","p","e","c","t","i","n","g"," ","v","a","l","u","e",":"," ","l","i","n","e"," ","1"," ","c","o","l","u","m","n"," ","1"," ","(","c","h","a","r"," ","0",")">> (* "Expecting value: line 1 column 1 (char 0)" *)]),
      CreateNonObject("array"),
      CreateObject(EmptyPost, <<JsonArg("likesCount", JStr(<<"p","r","i","v","a","t","e">> (* "private" *)))>>),
      CreateObject([EmptyPost EXCEPT !.caption = Some(<<"T","e","s","t"," ","p","o","s","t">> (* "Test post" *))],
                   <<JsonArg("likesCount", JStr(<<"1","2">> (* "12" *)))>>),
      CreateObject([EmptyPost EXCEPT !.caption = Some(<<"T","e","s","t"," ","p","o","s","t">> (* "Test post" *)),
                                     !.type = Some(<<"i","m","a","g","e">> (* "image" *)),
                                     !.url = Some(<<"h","t","t","p","s",":","/","/","w","w","w",".","i","n","s","t","a","g","r","a","m",".","c","o","m","/","p","/","A","B","C","1","2","3","/">> (* "https://www.instagram.com/p/ABC123/" *)),
                                     !.shortCode = Some(<<"A","B","C","1","2","3">> (* "ABC123" *)),
                                     !.imageUrl = Some(<<"a",".","j","p","g">> (* "a.jpg" *))], <<>>),
      CreateObject([EmptyPost EXCEPT !.videoUrl = Some(<<"x",".","M","P","4">> (* "x.MP4" *)),
                                     !.imageUrl = Some(<<"t","h","u","m","b",".","j","p","g">> (* "thumb.jpg" *))], <<>>),
      CreateObject([EmptyPost EXCEPT !.videoViewCount = Some(0),
                                     !.videoPlayCount = Some(12)], <<>>),
      CreateObject([EmptyPost EXCEPT !.type = Some(<<"v","i","d","e","o">> (* "video" *)),
                                     !.imageUrl = Some(<<"h","t","t","p","s",":","/","/","c","d","n",".","e","x","a","m","p","l","e","/","c","l","i","p",".","m","p","4">> (* "https://cdn.example/clip.mp4" *))],
                   <<>>) }

Urls == { <<"h","t","t","p","s",":","/","/","w","w","w",".","i","n","s","t","a","g","r","a","m",".","c","o","m","/","p","/","A","B","C","1","2","3","/">> (* "https://www.instagram.com/p/ABC123/" *),
          <<"h","t","t","p","s",":","/","/","w","w","w",".","i","n","s","t","a","g","r","a","m",".","c","o","m","/","r","e","e","l","/","X","y","Z","_","9","-","a">> (* "https://www.instagram.com/reel/XyZ_9-a" *) }

-----------------------------------------------------------------------------
(* The request as a state machine *)

\* no function is being applied on its own
NoUnit == [stage |-> "none"]

Init ==
    /\ pc = "start"
    /\ max_retries \in (-1)..MaxRetriesBound
    /\ SCRAPE_TIMEOUT \in {-1, 0, DefaultScrapeTimeout}
    /\ instagram_url \in Urls
    /\ attempt = 0
    /\ scraped_content = None
    /\ retry_result = Pending
    /\ fetch_log = <<>>
    /\ extractor_log = <<>>
    /\ trace = <<>>
    /\ deadline_elapsed = FALSE
    /\ pipeline = Pending
    /\ response = NoResponse
    /\ slept = <<>>
    /\ unit = NoUnit
    /\ invocations = <<>>

\* scrape_instagram_post ended with outcome: scrape_instagram answers (app.py:146-179)
Finish(outcome) ==
    /\ pipeline' = outcome
    /\ response' = ScrapeResponse(outcome)
    /\ pc' = "done"

\* what one adapter call leaves in fetch_log
FetchLogEntry(res) ==
    [kind |-> IF res.kind = "raise" THEN "raised"
              ELSE IF TruthyStr(res.value) THEN "content" ELSE "soft",
     value |-> res.value,
     exc |-> res.exc]

\* Faulty variant of StartScrape: only a maximum of 0 skips the loop.
StartScrape_NonZero ==
    /\ pc = "start"
    /\ SCRAPE_TIMEOUT > 0
    /\ IF max_retries # 0
       THEN /\ pc' = "fetching"
            /\ UNCHANGED <<retry_result, pipeline, response>>
       ELSE /\ retry_result' = Return(None)
            /\ Finish(AfterFetch(Return(None)))
    /\ UNCHANGED <<unit, invocations, slept>>
    /\ UNCHANGED <<max_retries, SCRAPE_TIMEOUT, instagram_url, attempt, scraped_content, fetch_log,
                   extractor_log, trace, deadline_elapsed>>

\* app.py:146-151 and scraper.py:36-64: the pipeline starts and enters the retry
\* loop; range(max_retries) is empty when max_retries <= 0. asyncio.wait_for
\* lets the coroutine run only when its timeout is positive.
StartScrape ==
    /\ pc = "start"
    /\ SCRAPE_TIMEOUT > 0
    /\ IF max_retries > 0
       THEN /\ pc' = "fetching"
            /\ UNCHANGED <<retry_result, pipeline, response>>
       ELSE /\ retry_result' = Return(None)
            /\ Finish(AfterFetch(Return(None)))
    /\ UNCHANGED <<unit, invocations, slept>>
    /\ UNCHANGED <<max_retries, SCRAPE_TIMEOUT, instagram_url, attempt, scraped_content, fetch_log,
                   extractor_log, trace, deadline_elapsed>>

\* Faulty variant of FetchAttempt: the loop remembers the first error it
\* swallowed and raises it when the final attempt is a soft failure.
FetchAttempt_RemembersError ==
    /\ pc = "fetching"
    /\ \E o \in FetchOutcomes :
        LET res == _scrape_with_crawl4ai(o)
            step == RetryStep(res, attempt, max_retries)
            raised == {i \in DOMAIN fetch_log : fetch_log[i].kind = "raised"}
            result == IF step.result = Return(None) /\ raised # {}
                      THEN Raise(fetch_log[CHOOSE i \in raised : \A j \in raised : i <= j].exc)
                      ELSE step.result
            after == AfterFetch(result)
        IN /\ fetch_log' = Append(fetch_log, FetchLogEntry(res))
           /\ IF step.next = "sleep"
              THEN /\ trace' = trace \o <<"fetch", "wait">>
                   /\ slept' = Append(slept, RetryDelay(res, attempt))
                   /\ pc' = "sleeping"
                   /\ UNCHANGED <<scraped_content, retry_result, pipeline, response>>
              ELSE /\ trace' = Append(trace, "fetch")
                   /\ UNCHANGED slept
                   /\ retry_result' = result
                   /\ IF after.kind = "continue"
                      THEN /\ scraped_content' = after.value
                           /\ pc' = "extracting"
                           /\ UNCHANGED <<pipeline, response>>
                      ELSE /\ Finish(after)
                           /\ UNCHANGED scraped_content
    /\ UNCHANGED <<unit, invocations>>
    /\ UNCHANGED <<max_retries, SCRAPE_TIMEOUT, instagram_url, attempt, extractor_log, deadline_elapsed>>

\* scraper.py:65-83 and 40-46: one attempt of the retry loop, until the loop
\* sleeps or ends; when it ends, the orchestrator goes on or raises
FetchAttempt ==
    /\ pc = "fetching"
    /\ \E o \in FetchOutcomes :
        LET res == _scrape_with_crawl4ai(o)
            step == RetryStep(res, attempt, max_retries)
            after == AfterFetch(step.result)
        IN /\ fetch_log' = Append(fetch_log, FetchLogEntry(res))
           /\ IF step.next = "sleep"
              THEN /\ trace' = trace \o <<"fetch", "wait">>
                   /\ slept' = Append(slept, RetryDelay(res, attempt))
                   /\ pc' = "sleeping"
                   /\ UNCHANGED <<scraped_content, retry_result, pipeline, response>>
              ELSE /\ trace' = Append(trace, "fetch")
                   /\ UNCHANGED slept
                   /\ retry_result' = step.result
                   /\ IF after.kind = "continue"
                      THEN /\ scraped_content' = after.value
                           /\ pc' = "extracting"
                           /\ UNCHANGED <<pipeline, response>>
                      ELSE /\ Finish(after)
                           /\ UNCHANGED scraped_content
    /\ UNCHANGED <<unit, invocations>>
    /\ UNCHANGED <<max_retries, SCRAPE_TIMEOUT, instagram_url, attempt, extractor_log, deadline_elapsed>>

\* scraper.py:74, 79, 64 and 83: asyncio.sleep(INSTAGRAM_RETRY_DELAY) returns and the
\* for loop takes its next value of attempt, or is exhausted and None is returned
RetryWait ==
    /\ pc = "sleeping"
    /\ attempt' = attempt + 1
    /\ IF attempt + 1 < max_retries
       THEN /\ pc' = "fetching"
            /\ UNCHANGED <<retry_result, pipeline, response>>
       ELSE /\ retry_result' = Return(None)
            /\ Finish(AfterFetch(Return(None)))
    /\ UNCHANGED <<unit, invocations, slept>>
    /\ UNCHANGED <<max_retries, SCRAPE_TIMEOUT, instagram_url, scraped_content, fetch_log, extractor_log,
                   trace, deadline_elapsed>>

\* Faulty variant of ParseWithOpenAI: a failed extraction is tried again.
ParseWithOpenAI_Retrying ==
    /\ pc = "extracting"
    /\ \E r \in ExtractorOutcomes :
        LET res == _parse_with_openai(Val(scraped_content), instagram_url, r)
        IN /\ extractor_log' = Append(extractor_log, r)
           /\ trace' = trace \o (IF ReachesNormalizer(r, instagram_url)
                                 THEN <<"extract", "normalize">> ELSE <<"extract">>)
           /\ IF res.kind = "raise" /\ Len(extractor_log) < 1
              THEN UNCHANGED <<pc, pipeline, response>>
              ELSE Finish(AfterParse(res))
    /\ UNCHANGED <<unit, invocations, slept>>
    /\ UNCHANGED <<max_retries, SCRAPE_TIMEOUT, instagram_url, attempt, scraped_content, retry_result,
                   fetch_log, deadline_elapsed>>

\* scraper.py:49-60: the (blocking) extractor call, the backfill, the normalizer,
\* and the end of the pipeline
ParseWithOpenAI ==
    /\ pc = "extracting"
    /\ \E r \in ExtractorOutcomes :
        LET res == _parse_with_openai(Val(scraped_content), instagram_url, r)
        IN /\ extractor_log' = Append(extractor_log, r)
           /\ trace' = trace \o (IF ReachesNormalizer(r, instagram_url)
                                 THEN <<"extract", "normalize">> ELSE <<"extract">>)
           /\ Finish(AfterParse(res))
    /\ UNCHANGED <<unit, invocations, slept>>
    /\ UNCHANGED <<max_retries, SCRAPE_TIMEOUT, instagram_url, attempt, scraped_content, retry_result,
                   fetch_log, deadline_elapsed>>

\* Faulty variant of DeadlineElapses: the timeout is answered, and the
\* cancellation is caught inside the pipeline, which goes on.
DeadlineElapses_Swallowed ==
    /\ ~deadline_elapsed
    /\ IF SCRAPE_TIMEOUT <= 0 THEN pc = "start"
       ELSE pc \in {"fetching", "sleeping", "extracting"}
    /\ deadline_elapsed' = TRUE
    /\ IF pc = "start"
       THEN Finish(Cancelled)
       ELSE IF pc \in {"fetching", "sleeping"}
       THEN /\ pipeline' = Cancelled
            /\ response' = ScrapeResponse(Cancelled)
            /\ pc' = "sleeping"
       ELSE UNCHANGED <<pc, pipeline, response>>
    /\ UNCHANGED <<unit, invocations, slept>>
    /\ UNCHANGED <<max_retries, SCRAPE_TIMEOUT, instagram_url, attempt, scraped_content, retry_result,
                   fetch_log, extractor_log, trace>>

\* app.py:147-158: SCRAPE_TIMEOUT elapses. With a timeout of 0 or less
\* asyncio.wait_for cancels the pipeline before it has run a step. With a positive
\* timeout it cancels the pipeline when it is suspended in an await (the crawl or
\* the retry sleep); the OpenAI call is synchronous and holds the event loop, so
\* the pipeline runs on to its end.
DeadlineElapses ==
    /\ ~deadline_elapsed
    /\ IF SCRAPE_TIMEOUT <= 0 THEN pc = "start"
       ELSE pc \in {"fetching", "sleeping", "extracting"}
    /\ deadline_elapsed' = TRUE
    /\ IF pc \in {"start", "fetching", "sleeping"}
       THEN Finish(Cancelled)
       ELSE UNCHANGED <<pc, pipeline, response>>
    /\ UNCHANGED <<unit, invocations, slept>>
    /\ UNCHANGED <<max_retries, SCRAPE_TIMEOUT, instagram_url, attempt, scraped_content, retry_result,
                   fetch_log, extractor_log, trace>>

Next == StartScrape \/ FetchAttempt \/ RetryWait \/ ParseWithOpenAI \/ DeadlineElapses

Spec == Init /\ [][Next]_vars

\* The coroutine leaves the position at with a step to one of the positions to.
Resumes(at, to) == pc = at /\ pc' \in to

\* Every crawl, sleep and chat completion call returns, raises or is cancelled,
\* and the event loop runs the coroutine on: the pipeline does not stay for ever
\* at its start or at one await. Nothing obliges the deadline to elapse.
Progress ==
    /\ WF_pc(Resumes("start", {"fetching", "done"}))
    /\ WF_pc(Resumes("fetching", {"sleeping", "extracting", "done"}))
    /\ WF_pc(Resumes("sleeping", {"fetching", "done"}))
    /\ WF_pc(Resumes("extracting", {"done"}))

SpecFair == Init /\ [][Next]_vars /\ Progress

TypeOK ==
    /\ pc \in {"start", "fetching", "sleeping", "extracting", "done"}
    /\ max_retries \in (-1)..MaxRetriesBound
    /\ SCRAPE_TIMEOUT \in {-1, 0, DefaultScrapeTimeout}
    /\ attempt \in 0..MaxRetriesBound
    /\ retry_result.kind \in {"pending", "return", "raise"}
    /\ deadline_elapsed \in BOOLEAN
    /\ pipeline.kind \in {"pending", "return", "raise", "cancelled"}
    /\ response.status \in {0, 200, 404, 408, 429, 500, 503}

-----------------------------------------------------------------------------
(* The classifiers and the normalizer applied on their own, to arguments     *)
(* drawn from bounded sets                                                  *)

\* Bound: an error message is the concatenation of at most MaxFragments fragments
MaxFragments == 2
\* the longest run of whitespace around a fetched text
MaxPadding == 2

\* the variables of the single request are not in use
RequestIdle ==
    /\ pc = "idle"
    /\ instagram_url = <<>>
    /\ attempt = 0
    /\ scraped_content = None
    /\ retry_result = Pending
    /\ fetch_log = <<>>
    /\ extractor_log = <<>>
    /\ trace = <<>>
    /\ deadline_elapsed = FALSE
    /\ pipeline = Pending
    /\ response = NoResponse
    /\ slept = <<>>

\* no request is being served
NoRequest == max_retries = 0 /\ SCRAPE_TIMEOUT = DefaultScrapeTimeout /\ RequestIdle

request_vars == <<pc, max_retries, SCRAPE_TIMEOUT, instagram_url, attempt, scraped_content, retry_result,
                  fetch_log, extractor_log, trace, deadline_elapsed, pipeline, response,
                  slept>>

RECURSIVE Concat(_)
Concat(parts) == IF parts = <<>> THEN <<>> ELSE Head(parts) \o Concat(Tail(parts))

\* the texts made of at most n of the given fragments
Messages(fragments, n) == {Concat(parts) : parts \in UNION {[1..k -> fragments] : k \in 0..n}}

\* result.error_message of a failed crawl: absent, or a text in which the
\* keywords of scraper.py:138-145 occur in either case and in any order
FetchErrorFragments ==
    { <<"4","0","4">> (* "404" *), <<"N","o","t"," ","F","o","u","n","d">> (* "Not Found" *), <<"4","0","3">> (* "403" *), <<"F","O","R","B","I","D","D","E","N">> (* "FORBIDDEN" *), <<"R","a","t","e"," ","L","i","m","i","t">> (* "Rate Limit" *), <<"4","2","9">> (* "429" *),
      <<"p","r","i","v","a","t","e">> (* "private" *), <<"T","o","o"," ","M","a","n","y"," ","R","e","q","u","e","s","t","s">> (* "Too Many Requests" *), <<"t","i","m","e","d"," ","o","u","t">> (* "timed out" *), <<" ","-"," ">> (* " - " *) }
FetchErrorMessages ==
    {None}
    \cup {Some(m) : m \in Messages(FetchErrorFragments, MaxFragments)}
    \cup { Some(<<"4","0","3"," ","f","o","r","b","i","d","d","e","n">> (* "403 forbidden" *)), Some(<<"4","2","9"," ","t","o","o"," ","m","a","n","y"," ","r","e","q","u","e","s","t","s">> (* "429 too many requests" *)),
           Some(<<"4","0","4"," ","-"," ","P","a","g","e"," ","n","o","t"," ","f","o","u","n","d">> (* "404 - Page not found" *)), Some(<<"n","e","t",":",":","E","R","R","_","C","O","N","N","E","C","T","I","O","N","_","R","E","S","E","T">> (* "net::ERR_CONNECTION_RESET" *)) }

InitFetchError ==
    /\ NoRequest
    /\ invocations = <<>>
    /\ unit \in {[stage |-> "input", arg |-> m, out |-> Pending] : m \in FetchErrorMessages}

\* scraper.py:111-147: arun returned a failure result with the message unit.arg
CrawlFailed ==
    /\ unit.stage = "input"
    /\ unit' = [unit EXCEPT !.stage = "applied",
                            !.out = _scrape_with_crawl4ai(ArunFailure(unit.arg))]
    /\ UNCHANGED <<request_vars, invocations>>

NextFetchError == CrawlFailed

SpecFetchError == InitFetchError /\ [][NextFetchError]_vars

\* str(e) of an exception raised by chat.completions.create: a text in which
\* the keywords of scraper.py:269-276 occur in either case and in any order
OpenAIErrorFragments ==
    { <<"A","P","I"," ","k","e","y">> (* "API key" *), <<"Q","u","o","t","a">> (* "Quota" *), <<"B","I","L","L","I","N","G">> (* "BILLING" *), <<"R","a","t","e"," ","L","i","m","i","t">> (* "Rate Limit" *), <<"e","x","c","e","e","d","e","d">> (* "exceeded" *), <<"I","n","c","o","r","r","e","c","t">> (* "Incorrect" *),
      <<"C","o","n","n","e","c","t","i","o","n"," ","e","r","r","o","r">> (* "Connection error" *), <<" ","-"," ">> (* " - " *) }
\* the extractor calls that end in an error: the call raises (under several
\* exception classes), or returns no function call, arguments that are not
\* JSON, JSON that is not an object, or an object that InstagramPost rejects
FailingExtractorOutcomes ==
    {CreateRaises(Exception(m)) : m \in Messages(OpenAIErrorFragments, MaxFragments)}
    \cup { CreateRaises([type |-> "RateLimitError", msg |-> <<"R","a","t","e"," ","l","i","m","i","t"," ","r","e","a","c","h","e","d">> (* "Rate limit reached" *)]),
           CreateRaises([type |-> "JSONDecodeError",
                         msg |-> <<"E","x","p","e","c","t","i","n","g"," ","v","a","l","u","e",":"," ","l","i","n","e"," ","1"," ","c","o","l","u","m","n"," ","1"," ","(","c","h","a","r"," ","0",")">> (* "Expecting value: line 1 column 1 (char 0)" *)]),
           CreateRaises([type |-> "JSONDecodeError",
                         msg |-> <<"I","n","v","a","l","i","d"," ","A","P","I"," ","k","e","y",":"," ","l","i","n","e"," ","1"," ","c","o","l","u","m","n"," ","1"," ","(","c","h","a","r"," ","0",")">> (* "Invalid API key: line 1 column 1 (char 0)" *)]),
           CreateNoFunctionCall,
           CreateInvalidJson }
    \cup {CreateNonObject(kind) : kind \in {"array", "null", "string", "integer", "real", "boolean"}}
    \* arguments that InstagramPost rejects: values of another type than the
    \* field's, some of them with a keyword of scraper.py:269-276 in the value
    \cup {CreateObject(EmptyPost, extra) : extra \in
          { <<JsonArg("likesCount", JStr(<<"a","b","c">> (* "abc" *)))>>,
            <<JsonArg("likesCount", JStr(<<"1",".","5">> (* "1.5" *)))>>,
            <<JsonArg("likesCount", JStr(<<"1",".">> (* "1." *)))>>,
            <<JsonArg("videoPlayCount", JStr(<<"0","-","0","1">> (* "0-01" *)))>>,
            \* values whose repr is shortened, the second one in its keyword
            <<JsonArg("videoPlayCount", JStr(Rep("a", 49)))>>,
            <<JsonArg("timestamp",
                      JList(<<Rep("x", 20) \o <<"a","p","i"," ","k","e","y">> (* "api key" *) \o Rep("x", 20)>>))>>,
            <<JsonArg("mentions", JStr(<<"\f","B","i","l","l","i","n","g">> (* "\fBilling" *)))>>,
            <<JsonArg("likesCount", JStr(<<"R","a","t","e"," ","L","i","m","i","t">> (* "Rate Limit" *)))>>,
            <<JsonArg("commentsCount", JList(<<<<"a">> (* "a" *)>>))>>,
            <<JsonArg("caption", JList(<<<<"m","y"," ","a","p","i"," ","k","e","y">> (* "my api key" *)>>))>>,
            <<JsonArg("caption", JInt(5))>>,
            <<JsonArg("hashtags", JStr(<<"b","i","l","l","i","n","g">> (* "billing" *)))>>,
            <<JsonArg("mentions", JInt(-7))>>,
            <<JsonArg("url", JInt(5))>>,
            <<JsonArg("url", JInt(0)), JsonArg("shortCode", JInt(0)),
              JsonArg("alt", JList(<<>>))>>,
            <<JsonArg("hashtags", JStr(<<"i","t","'","s"," ","a"," ","q","u","o","t","a">> (* "it's a quota" *))), JsonArg("likesCount", JStr(<<"1","2">> (* "12" *))),
              JsonArg("videoViewCount", JStr(<<"A","P","I"," ","k","e","y">> (* "API key" *)))>> }}

InitOpenAIError ==
    /\ NoRequest
    /\ invocations = <<>>
    /\ unit \in {[stage |-> "input", arg |-> r, out |-> Pending] :
                 r \in FailingExtractorOutcomes}

\* scraper.py:153-278: the chat completion call ended as unit.arg
ExtractorFailed ==
    /\ unit.stage = "input"
    /\ unit' = [unit EXCEPT
                  !.stage = "applied",
                  !.out = _parse_with_openai(<<"*","*","t","e","s","t","u","s","e","r","*","*"," ","T","e","s","t"," ","p","o","s","t">> (* "**testuser** Test post" *),
                                             <<"h","t","t","p","s",":","/","/","w","w","w",".","i","n","s","t","a","g","r","a","m",".","c","o","m","/","p","/","A","B","C","1","2","3","/">> (* "https://www.instagram.com/p/ABC123/" *),
                                             unit.arg)]
    /\ UNCHANGED <<request_vars, invocations>>

NextOpenAIError == ExtractorFailed

SpecOpenAIError == InitOpenAIError /\ [][NextOpenAIError]_vars

\* InstagramPost with every field the normalizer does not read set
FullPost ==
    [EmptyPost EXCEPT !.caption = Some(<<"T","e","s","t"," ","p","o","s","t"," ","#","t","a","g"," ","@","f","r","i","e","n","d">> (* "Test post #tag @friend" *)),
                      !.url = Some(<<"h","t","t","p","s",":","/","/","w","w","w",".","i","n","s","t","a","g","r","a","m",".","c","o","m","/","p","/","A","B","C","1","2","3","/">> (* "https://www.instagram.com/p/ABC123/" *)),
                      !.shortCode = Some(<<"A","B","C","1","2","3">> (* "ABC123" *)),
                      !.timestamp = Some(<<"2","0","2","4","-","0","1","-","0","1","T","0","0",":","0","0",":","0","0","Z">> (* "2024-01-01T00:00:00Z" *)),
                      !.likesCount = Some(3),
                      !.commentsCount = Some(0),
                      !.ownerUsername = Some(<<"t","e","s","t","u","s","e","r">> (* "testuser" *)),
                      !.ownerFullName = Some(<<"T","e","s","t"," ","U","s","e","r">> (* "Test User" *)),
                      !.locationName = Some(<<"M","a","n","i","l","a">> (* "Manila" *)),
                      !.hashtags = Some(<<<<"t","a","g">> (* "tag" *)>>),
                      !.mentions = Some(<<<<"f","r","i","e","n","d">> (* "friend" *)>>),
                      !.alt = Some(<<"P","h","o","t","o"," ","b","y"," ","T","e","s","t"," ","U","s","e","r">> (* "Photo by Test User" *))]

\* values of the fields the normalizer reads: absent, empty, and present
TypeValues == {None, Some(<<>>), Some(<<"i","m","a","g","e">> (* "image" *)), Some(<<"c","a","r","o","u","s","e","l">> (* "carousel" *)), Some(<<"v","i","d","e","o">> (* "video" *))}
VideoUrlValues ==
    { None, Some(<<>>), Some(<<" "," "," ">> (* "   " *)), Some(<<"x",".","m","p","4">> (* "x.mp4" *)),
      Some(<<"h","t","t","p","s",":","/","/","c","d","n",".","e","x","a","m","p","l","e","/","V",".","M","O","V","?","x","=","1">> (* "https://cdn.example/V.MOV?x=1" *)), Some(<<"h","t","t","p","s",":","/","/","c","d","n",".","e","x","a","m","p","l","e","/","v","i","d","e","o","/","1">> (* "https://cdn.example/video/1" *)),
      Some(<<" ","c","l","i","p",".","w","e","b","m"," ">> (* " clip.webm " *)), Some(<<"a",".","j","p","g">> (* "a.jpg" *)) }
ImageUrlValues == {None, Some(<<>>), Some(<<"t","h","u","m","b",".","j","p","g">> (* "thumb.jpg" *))}
DisplayUrlValues == {None, Some(<<>>), Some(<<"d",".","j","p","g">> (* "d.jpg" *))}
ViewCountValues == {None, Some(0), Some(5)}
PlayCountValues == {None, Some(0), Some(12)}

\* the records InstagramPost(**function_args) can be
PostRecords ==
    { [base EXCEPT !.type = t, !.videoUrl = v, !.imageUrl = im, !.displayUrl = d,
                   !.videoViewCount = views, !.videoPlayCount = plays] :
      base \in {EmptyPost, FullPost}, t \in TypeValues, v \in VideoUrlValues,
      im \in ImageUrlValues, d \in DisplayUrlValues,
      views \in ViewCountValues, plays \in PlayCountValues }

InitNormalize ==
    /\ NoRequest
    /\ invocations = <<>>
    /\ unit \in {[stage |-> "input", arg |-> post, out |-> None, again |-> None] :
                 post \in PostRecords}

\* scraper.py:258: the normalizer is applied to the record built from the arguments
Normalize ==
    /\ unit.stage = "input"
    /\ unit' = [unit EXCEPT !.stage = "once",
                            !.out = Some(_prioritize_video_content(unit.arg))]
    /\ UNCHANGED <<request_vars, invocations>>

\* the normalizer is applied to its own result
NormalizeAgain ==
    /\ unit.stage = "once"
    /\ unit' = [unit EXCEPT !.stage = "twice",
                            !.again = Some(_prioritize_video_content(Val(unit.out)))]
    /\ UNCHANGED <<request_vars, invocations>>

NextNormalize == Normalize \/ NormalizeAgain

SpecNormalize == InitNormalize /\ [][NextNormalize]_vars

\* URLs given to _parse_with_openai: with a /p/ segment and an identifier (ended
\* by a slash, a query, a character outside the class, or the end of the URL),
\* with a /p/ segment and no identifier, with two /p/ segments, and without one
BackfillUrls ==
    { <<"h","t","t","p","s",":","/","/","w","w","w",".","i","n","s","t","a","g","r","a","m",".","c","o","m","/","p","/","A","B","C","1","2","3","/">> (* "https://www.instagram.com/p/ABC123/" *),
      <<"h","t","t","p","s",":","/","/","w","w","w",".","i","n","s","t","a","g","r","a","m",".","c","o","m","/","p","/","A","B","C","1","2","3">> (* "https://www.instagram.com/p/ABC123" *),
      <<"h","t","t","p","s",":","/","/","w","w","w",".","i","n","s","t","a","g","r","a","m",".","c","o","m","/","p","/","X","y","Z","_","9","-","a","/","?","i","g","s","h","i","d","=","1">> (* "https://www.instagram.com/p/XyZ_9-a/?igshid=1" *),
      <<"h","t","t","p","s",":","/","/","w","w","w",".","i","n","s","t","a","g","r","a","m",".","c","o","m","/","p","/","C","x",".","y","/">> (* "https://www.instagram.com/p/Cx.y/" *),
      <<"h","t","t","p","s",":","/","/","w","w","w",".","i","n","s","t","a","g","r","a","m",".","c","o","m","/","p","/">> (* "https://www.instagram.com/p/" *),
      <<"h","t","t","p","s",":","/","/","w","w","w",".","i","n","s","t","a","g","r","a","m",".","c","o","m","/","p","/","/">> (* "https://www.instagram.com/p//" *),
      <<"h","t","t","p","s",":","/","/","w","w","w",".","i","n","s","t","a","g","r","a","m",".","c","o","m","/","p","/","?","/","p","/","O","K","1">> (* "https://www.instagram.com/p/?/p/OK1" *),
      <<"h","t","t","p","s",":","/","/","w","w","w",".","i","n","s","t","a","g","r","a","m",".","c","o","m","/","r","e","e","l","/","X","y","Z","_","9","-","a">> (* "https://www.instagram.com/reel/XyZ_9-a" *),
      <<"h","t","t","p","s",":","/","/","w","w","w",".","i","n","s","t","a","g","r","a","m",".","c","o","m","/","t","v","/","p","-","1","/">> (* "https://www.instagram.com/tv/p-1/" *),
      <<"h","t","t","p",":","/","/","i","n","s","t","a","g","r","a","m",".","c","o","m","/","p","/","a">> (* "http://instagram.com/p/a" *) }

\* function_args of a successful extraction: shortCode and url each absent,
\* empty or supplied
BackfillArgsValues ==
    { [EmptyPost EXCEPT !.shortCode = code, !.url = u] :
      code \in {None, Some(<<>>), Some(<<"X","Y","Z","7","8","9">> (* "XYZ789" *))},
      u \in {None, Some(<<>>), Some(<<"h","t","t","p","s",":","/","/","w","w","w",".","i","n","s","t","a","g","r","a","m",".","c","o","m","/","p","/","O","T","H","E","R","1","/">> (* "https://www.instagram.com/p/OTHER1/" *))} }

InitBackfill ==
    /\ NoRequest
    /\ invocations = <<>>
    /\ unit \in {[stage |-> "input", url |-> u, arg |-> pair[1], extra |-> pair[2],
                   out |-> Pending] :
                 u \in BackfillUrls,
                 \* keys with a value of another type that do not stop the
                 \* extraction: a falsy url, and a count written as a string
                 pair \in {<<args, extra>> \in BackfillArgsValues \X
                            { <<>>,
                              <<JsonArg("url", JInt(0))>>,
                              <<JsonArg("commentsCount", JStr(<<"0","_","-","1">> (* "0_-1" *)))>>,
                              <<JsonArg("likesCount", JStr(<<" ","+","1","_","2","0","0",".","0">> (* " +1_200.0" *))),
                                JsonArg("url", JList(<<>>))>> } :
                            extra # <<>> => args.url = None}}

\* scraper.py:241-259: the chat completion returned the arguments unit.arg
\* with unit.extra
ExtractionSucceeds ==
    /\ unit.stage = "input"
    /\ unit' = [unit EXCEPT
                  !.stage = "applied",
                  !.out = _parse_with_openai(<<"*","*","t","e","s","t","u","s","e","r","*","*"," ","T","e","s","t"," ","p","o","s","t">> (* "**testuser** Test post" *), unit.url,
                                             CreateObject(unit.arg, unit.extra))]
    /\ UNCHANGED <<request_vars, invocations>>

NextBackfill == ExtractionSucceeds

SpecBackfill == InitBackfill /\ [][NextBackfill]_vars

-----------------------------------------------------------------------------
(* Several requests served at once. app.py:47 creates one InstagramScraper   *)
(* for the whole process and Config is global; every call of                 *)
(* scrape_instagram_post has its own locals (attempt, scraped_content, the   *)
(* InstagramPost it builds) and its own asyncio.wait_for deadline.           *)

NumInvocations == 2
Invocations == 1..NumInvocations

\* the URL of each request
InvocationUrls == << <<"h","t","t","p","s",":","/","/","w","w","w",".","i","n","s","t","a","g","r","a","m",".","c","o","m","/","p","/","A","B","C","1","2","3","/">> (* "https://www.instagram.com/p/ABC123/" *),
                     <<"h","t","t","p","s",":","/","/","w","w","w",".","i","n","s","t","a","g","r","a","m",".","c","o","m","/","r","e","e","l","/","X","y","Z","_","9","-","a">> (* "https://www.instagram.com/reel/XyZ_9-a" *) >>

\* crawler.arun outcomes of the concurrent requests: usable content, a soft
\* failure and a hard failure
ConcurrentFetchOutcomes ==
    { ArunSuccess(Some(Rep("y", 100)), <<VideoMedia>>),
      ArunSuccess(Some(<<"S","h","o","r","t">> (* "Short" *)), <<>>),
      ArunFailure(Some(<<"4","0","4"," ","-"," ","P","a","g","e"," ","n","o","t"," ","f","o","u","n","d">> (* "404 - Page not found" *))) }

\* chat.completions.create outcomes of the concurrent requests
ConcurrentExtractorOutcomes ==
    { CreateRaises(Exception(<<"R","a","t","e"," ","l","i","m","i","t"," ","e","x","c","e","e","d","e","d">> (* "Rate limit exceeded" *))),
      CreateObject([EmptyPost EXCEPT !.videoUrl = Some(<<"x",".","M","P","4">> (* "x.MP4" *)),
                                     !.imageUrl = Some(<<"t","h","u","m","b",".","j","p","g">> (* "thumb.jpg" *))], <<>>) }

NewInvocation(url) ==
    [pc |-> "start", url |-> url, attempt |-> 0, scraped_content |-> None,
     fetch_log |-> <<>>, extractor_log |-> <<>>, deadline_elapsed |-> FALSE,
     pipeline |-> Pending, response |-> NoResponse]

InitConcurrent ==
    /\ RequestIdle
    /\ max_retries \in 0..MaxRetriesBound
    /\ SCRAPE_TIMEOUT \in {-1, 0, DefaultScrapeTimeout}
    /\ unit = NoUnit
    /\ invocations = [i \in Invocations |-> NewInvocation(InvocationUrls[i])]

RECURSIVE AttemptsOfAll(_)
AttemptsOfAll(n) == IF n = 0 THEN 0 ELSE invocations[n].attempt + AttemptsOfAll(n - 1)

\* Faulty variant of LoopCounter: one counter on the shared scraper instance.
LoopCounter_OnInstance(i) == AttemptsOfAll(NumInvocations)

\* scraper.py:64: attempt is a local of the call serving request i
LoopCounter(i) == invocations[i].attempt

\* request i ended with outcome (app.py:146-179)
Finished(inv, outcome) ==
    [inv EXCEPT !.pipeline = outcome, !.response = ScrapeResponse(outcome), !.pc = "done"]

\* StartScrape of request i
StartScrapeOf(i) ==
    LET inv == invocations[i]
    IN /\ inv.pc = "start"
       /\ SCRAPE_TIMEOUT > 0
       /\ invocations' =
            [invocations EXCEPT ![i] =
               IF max_retries > 0 THEN [inv EXCEPT !.pc = "fetching"]
               ELSE Finished(inv, AfterFetch(Return(None)))]
       /\ UNCHANGED <<request_vars, unit>>

\* FetchAttempt of request i
FetchAttemptOf(i) ==
    LET inv == invocations[i]
    IN /\ inv.pc = "fetching"
       /\ \E o \in ConcurrentFetchOutcomes :
            LET res == _scrape_with_crawl4ai(o)
                step == RetryStep(res, LoopCounter(i), max_retries)
                after == AfterFetch(step.result)
                logged == [inv EXCEPT !.fetch_log = Append(@, res)]
            IN invocations' =
                 [invocations EXCEPT ![i] =
                    IF step.next = "sleep" THEN [logged EXCEPT !.pc = "sleeping"]
                    ELSE IF after.kind = "continue"
                    THEN [logged EXCEPT !.scraped_content = after.value,
                                        !.pc = "extracting"]
                    ELSE Finished(logged, after)]
       /\ UNCHANGED <<request_vars, unit>>

\* RetryWait of request i
RetryWaitOf(i) ==
    LET inv == invocations[i]
        next == [inv EXCEPT !.attempt = @ + 1]
    IN /\ inv.pc = "sleeping"
       /\ invocations' =
            [invocations EXCEPT ![i] =
               IF LoopCounter(i) + 1 < max_retries THEN [next EXCEPT !.pc = "fetching"]
               ELSE Finished(next, AfterFetch(Return(None)))]
       /\ UNCHANGED <<request_vars, unit>>

\* ParseWithOpenAI of request i
ParseWithOpenAIOf(i) ==
    LET inv == invocations[i]
    IN /\ inv.pc = "extracting"
       /\ \E r \in ConcurrentExtractorOutcomes :
            LET res == _parse_with_openai(Val(inv.scraped_content), inv.url, r)
            IN invocations' =
                 [invocations EXCEPT ![i] =
                    Finished([inv EXCEPT !.extractor_log = Append(@, r)], AfterParse(res))]
       /\ UNCHANGED <<request_vars, unit>>

\* DeadlineElapses of request i
DeadlineElapsesOf(i) ==
    LET inv == invocations[i]
        late == [inv EXCEPT !.deadline_elapsed = TRUE]
    IN /\ ~inv.deadline_elapsed
       /\ IF SCRAPE_TIMEOUT <= 0 THEN inv.pc = "start"
          ELSE inv.pc \in {"fetching", "sleeping", "extracting"}
       /\ invocations' =
            [invocations EXCEPT ![i] =
               IF inv.pc \in {"start", "fetching", "sleeping"}
               THEN Finished(late, Cancelled)
               ELSE late]
       /\ UNCHANGED <<request_vars, unit>>

NextConcurrent ==
    \E i \in Invocations :
        \/ StartScrapeOf(i)
        \/ FetchAttemptOf(i)
        \/ RetryWaitOf(i)
        \/ ParseWithOpenAIOf(i)
        \/ DeadlineElapsesOf(i)

SpecConcurrent == InitConcurrent /\ [][NextConcurrent]_vars

-----------------------------------------------------------------------------
(* scrape_instagram from the arrival of the request: the validation of         *)
(* app.py:110-139, then the pipeline of Spec. The rate limiter in front of the *)
(* view (app.py:100) is not part of the model.                                 *)

\* INSTAGRAM_MAX_RETRIES when the environment does not set it
DefaultMaxRetries == 3

StartsWith(s, prefix) == Len(s) >= Len(prefix) /\ SubSeq(s, 1, Len(prefix)) = prefix
EndsWith(s, suffix) ==
    Len(s) >= Len(suffix) /\ SubSeq(s, Len(s) - Len(suffix) + 1, Len(s)) = suffix

\* request.mimetype: the Content-Type header without its parameters, lower-cased
RECURSIVE BeforeSemicolon(_)
BeforeSemicolon(s) ==
    IF s = <<>> \/ Head(s) = ";" THEN <<>> ELSE <<Head(s)>> \o BeforeSemicolon(Tail(s))
MimeType(content_type) == Lower(Strip(BeforeSemicolon(content_type)))

\* request.is_json (app.py:114)
is_json(request) ==
    /\ request.content_type # None
    /\ LET mimetype == MimeType(Val(request.content_type))
       IN \/ mimetype = <<"a","p","p","l","i","c","a","t","i","o","n","/","j","s","o","n">> (* "application/json" *)
          \/ StartsWith(mimetype, <<"a","p","p","l","i","c","a","t","i","o","n","/">> (* "application/" *)) /\ EndsWith(mimetype, <<"+","j","s","o","n">> (* "+json" *))

\* the length of the longest run of [A-Za-z0-9_-] at the head of s
RECURSIVE CodeRun(_)
CodeRun(s) == IF s = <<>> \/ Head(s) \notin ShortCodeChars THEN 0 ELSE 1 + CodeRun(Tail(s))

\* re.match(r'^https?://(?:www\.)?instagram\.com/<kind>/[A-Za-z0-9_-]+/?$', url):
\* $ matches at the end of the string and before a newline that ends it
MatchesPattern(kind, url) ==
    \E scheme \in {<<"h","t","t","p",":","/","/">> (* "http://" *), <<"h","t","t","p","s",":","/","/">> (* "https://" *)}, www \in {<<>>, <<"w","w","w",".">> (* "www." *)} :
        LET head == scheme \o www \o <<"i","n","s","t","a","g","r","a","m",".","c","o","m","/">> (* "instagram.com/" *) \o kind \o <<"/">> (* "/" *)
            rest == SubSeq(url, Len(head) + 1, Len(url))
            code == CodeRun(rest)
        IN /\ StartsWith(url, head)
           /\ code >= 1
           /\ SubSeq(rest, code + 1, Len(rest)) \in {<<>>, <<"/">> (* "/" *), <<"\n">> (* "\n" *), <<"/","\n">> (* "/\n" *)}

\* app.py:188-198
_is_valid_instagram_url(url) ==
    \E kind \in {<<"p">> (* "p" *), <<"r","e","e","l">> (* "reel" *), <<"t","v">> (* "tv" *)} : MatchesPattern(kind, url)

\* the body of a request: text that is not JSON, a JSON value that is not an
\* object, or a JSON object with or without the member instagram_url
BodyNotJson == [json |-> "invalid", has_url |-> FALSE, instagram_url |-> None]
BodyNotObject(json) == [json |-> json, has_url |-> FALSE, instagram_url |-> None]
BodyWithoutUrl == [json |-> "object", has_url |-> FALSE, instagram_url |-> None]
BodyWithUrl(value) == [json |-> "object", has_url |-> TRUE, instagram_url |-> value]

UnexpectedErrorResponse == ErrorResponse(500, "An unexpected error occurred during scraping")

\* app.py:110-139: the response that ends the request before the scraper is
\* called, NoResponse when the request passes. get_json raises BadRequest on a
\* body that is not JSON, and ScrapeRequest(**value) raises TypeError on a value
\* that is not an object: both reach the handler of app.py:181-186.
Validation(request) ==
    IF ~is_json(request)
    THEN ErrorResponse(400, "Content-Type must be application/json")
    ELSE IF request.body.json # "object"
    THEN UnexpectedErrorResponse
    ELSE IF ~request.body.has_url \/ request.body.instagram_url = None
    THEN ErrorResponse(400, "Invalid request format")
    ELSE IF ~_is_valid_instagram_url(Val(request.body.instagram_url))
    THEN ErrorResponse(400, "Invalid Instagram URL format")
    ELSE NoResponse

ContentTypes ==
    { None, Some(<<"t","e","x","t","/","p","l","a","i","n">> (* "text/plain" *)), Some(<<"a","p","p","l","i","c","a","t","i","o","n","/","j","s","o","n">> (* "application/json" *)),
      Some(<<"a","p","p","l","i","c","a","t","i","o","n","/","j","s","o","n",";"," ","c","h","a","r","s","e","t","=","u","t","f","-","8">> (* "application/json; charset=utf-8" *)) }

AcceptedUrls ==
    { <<"h","t","t","p","s",":","/","/","w","w","w",".","i","n","s","t","a","g","r","a","m",".","c","o","m","/","p","/","T","E","S","T","1","2","3","/">> (* "https://www.instagram.com/p/TEST123/" *),
      <<"h","t","t","p",":","/","/","i","n","s","t","a","g","r","a","m",".","c","o","m","/","r","e","e","l","/","X","y","Z","_","9","-","a">> (* "http://instagram.com/reel/XyZ_9-a" *),
      <<"h","t","t","p","s",":","/","/","w","w","w",".","i","n","s","t","a","g","r","a","m",".","c","o","m","/","t","v","/","T","E","S","T","1","2","3","/","\n">> (* "https://www.instagram.com/tv/TEST123/\n" *) }
RejectedUrls ==
    { <<"h","t","t","p","s",":","/","/","e","x","a","m","p","l","e",".","c","o","m","/","n","o","t","-","i","n","s","t","a","g","r","a","m">> (* "https://example.com/not-instagram" *),
      <<"f","t","p",":","/","/","w","w","w",".","i","n","s","t","a","g","r","a","m",".","c","o","m","/","p","/","T","E","S","T","1","2","3","/">> (* "ftp://www.instagram.com/p/TEST123/" *),
      <<"h","t","t","p","s",":","/","/","w","w","w",".","i","n","s","t","a","g","r","a","m",".","c","o","m","/","p","/">> (* "https://www.instagram.com/p/" *),
      <<"h","t","t","p","s",":","/","/","w","w","w",".","i","n","s","t","a","g","r","a","m",".","c","o","m","/","p","/","T","E","S","T","1","2","3","/","?","i","g","s","h","i","d","=","1">> (* "https://www.instagram.com/p/TEST123/?igshid=1" *),
      <<"h","t","t","p","s",":","/","/","w","w","w",".","i","n","s","t","a","g","r","a","m",".","c","o","m","/","s","t","o","r","i","e","s","/","T","E","S","T","1","2","3","/">> (* "https://www.instagram.com/stories/TEST123/" *),
      <<"h","t","t","p","s",":","/","/","m",".","i","n","s","t","a","g","r","a","m",".","c","o","m","/","p","/","T","E","S","T","1","2","3","/">> (* "https://m.instagram.com/p/TEST123/" *),
      <<"h","t","t","p","s",":","/","/","w","w","w",".","i","n","s","t","a","g","r","a","m",".","c","o","m","/","p","/","T","E","S","T"," ","1","2","3","/">> (* "https://www.instagram.com/p/TEST 123/" *),
      <<" ","h","t","t","p","s",":","/","/","w","w","w",".","i","n","s","t","a","g","r","a","m",".","c","o","m","/","p","/","T","E","S","T","1","2","3","/">> (* " https://www.instagram.com/p/TEST123/" *),
      <<>> }

Bodies ==
    { BodyNotJson, BodyNotObject("array"), BodyNotObject("null"), BodyWithoutUrl,
      BodyWithUrl(None) }
    \cup {BodyWithUrl(Some(u)) : u \in AcceptedUrls \cup RejectedUrls}

Requests == {[content_type |-> ct, body |-> b] : ct \in ContentTypes, b \in Bodies}

InitRequest ==
    /\ RequestIdle
    /\ max_retries = DefaultMaxRetries
    /\ SCRAPE_TIMEOUT = DefaultScrapeTimeout
    /\ invocations = <<>>
    /\ unit \in {[stage |-> "received", request |-> r, calls |-> 0] : r \in Requests}

\* app.py:110-151: the request is answered by the validation, or
\* scraper.scrape_instagram_post is called with its URL
ValidateRequest ==
    /\ pc = "idle"
    /\ unit.stage = "received"
    /\ IF Validation(unit.request) # NoResponse
       THEN /\ response' = Validation(unit.request)
            /\ pc' = "done"
            /\ unit' = [unit EXCEPT !.stage = "validated"]
            /\ UNCHANGED instagram_url
       ELSE /\ instagram_url' = Val(unit.request.body.instagram_url)
            /\ pc' = "start"
            /\ unit' = [unit EXCEPT !.stage = "validated", !.calls = @ + 1]
            /\ UNCHANGED response
    /\ UNCHANGED <<max_retries, SCRAPE_TIMEOUT, attempt, scraped_content, retry_result, fetch_log,
                   extractor_log, trace, deadline_elapsed, pipeline, slept, invocations>>

NextRequest ==
    \/ ValidateRequest
    \/ StartScrape \/ FetchAttempt \/ RetryWait \/ ParseWithOpenAI \/ DeadlineElapses

SpecRequest == InitRequest /\ [][NextRequest]_vars

-----------------------------------------------------------------------------
(* The fetched text on its way to the extractor: the content gate and the     *)
(* media block of _scrape_with_crawl4ai, then the prompt of                   *)
(* _parse_with_openai, applied to crawl results drawn from bounded sets       *)

\* result.markdown: whitespace, a body of n characters, whitespace. The body is
\* solid or has whitespace inside; its first and last characters are not
\* whitespace.
Paddings == {Rep(c, k) : c \in {" ", "\n", "\f"}, k \in 0..MaxPadding}
BodyLengths == {1, MinContentLength - 2, MinContentLength - 1, MinContentLength,
                MinContentLength + 1}
TextBodies(n) ==
    {Rep("x", n)} \cup (IF n >= 3 THEN {<<"x">> \o Rep(" ", n - 2) \o <<"x">>} ELSE {})
GateTexts ==
    {None, Some(<<>>), Some(Rep(" ", MinContentLength + 1))}
    \cup {Some(left \o body \o right) :
            left \in Paddings, right \in Paddings,
            body \in UNION {TextBodies(n) : n \in BodyLengths}}

\* texts around the limit of the prompt: the media block fits, is cut, is left out
LongTexts ==
    {Some(Rep("y", n)) : n \in {ContentLimit - 200, ContentLimit - 40, ContentLimit,
                                ContentLimit + 100}}

\* result.media
MediaLists == {<<>>, <<VideoMedia>>, <<VideoMedia, NoUrlMedia, UntypedMedia, NoneTypeMedia>>}

InitFetchedText ==
    /\ NoRequest
    /\ invocations = <<>>
    /\ unit \in {[stage |-> "input", url |-> <<"h","t","t","p","s",":","/","/","w","w","w",".","i","n","s","t","a","g","r","a","m",".","c","o","m","/","p","/","A","/">> (* "https://www.instagram.com/p/A/" *),
                   result |-> ArunSuccess(text, media), out |-> Pending, prompt |-> None] :
                  text \in GateTexts \cup LongTexts, media \in MediaLists}

\* scraper.py:85-134: crawler.arun returned the successful result unit.result
CrawlSucceeded ==
    /\ unit.stage = "input"
    /\ unit' = [unit EXCEPT !.stage = "fetched", !.out = _scrape_with_crawl4ai(unit.result)]
    /\ UNCHANGED <<request_vars, invocations>>

\* scraper.py:46-49 and 159-204: the content is handed to _parse_with_openai,
\* which builds the user message
SubmitToExtractor ==
    /\ unit.stage = "fetched"
    /\ unit.out.kind = "return"
    /\ TruthyStr(unit.out.value)
    /\ unit' = [unit EXCEPT !.stage = "submitted",
                            !.prompt = Some(UserPrompt(Val(unit.out.value), unit.url))]
    /\ UNCHANGED <<request_vars, invocations>>

NextFetchedText == CrawlSucceeded \/ SubmitToExtractor

SpecFetchedText == InitFetchedText /\ [][NextFetchedText]_vars

-----------------------------------------------------------------------------
(* Vocabulary of the properties: the failure taxonomy, read off the raised error *)

HasPrefix(prefix, s) == Len(s) >= Len(prefix) /\ SubSeq(s, 1, Len(prefix)) = prefix

Count(ev) == Cardinality({i \in DOMAIN trace : trace[i] = ev})

\* the fetch-stage bucket an error belongs to, Unclassified when it is in none
FetchKindOf(e) ==
    IF e.type # "Exception" THEN "Unclassified"
    ELSE IF e.msg = <<"I","n","s","t","a","g","r","a","m"," ","p","o","s","t"," ","n","o","t"," ","f","o","u","n","d"," ","o","r"," ","d","e","l","e","t","e","d">> (* "Instagram post not found or deleted" *) THEN "NotFound"
    ELSE IF e.msg = <<"I","n","s","t","a","g","r","a","m"," ","p","o","s","t"," ","i","s"," ","p","r","i","v","a","t","e"," ","o","r"," ","a","c","c","e","s","s"," ","d","e","n","i","e","d">> (* "Instagram post is private or access denied" *) THEN "AccessDenied"
    ELSE IF e.msg = <<"I","n","s","t","a","g","r","a","m"," ","i","s"," ","r","a","t","e"," ","l","i","m","i","t","i","n","g"," ","r","e","q","u","e","s","t","s">> (* "Instagram is rate limiting requests" *) THEN "RateLimited"
    ELSE IF HasPrefix(<<"F","a","i","l","e","d"," ","t","o"," ","a","c","c","e","s","s"," ","I","n","s","t","a","g","r","a","m"," ","p","o","s","t",":"," ">> (* "Failed to access Instagram post: " *), e.msg) THEN "Generic"
    ELSE "Unclassified"

\* the extraction-stage bucket an error belongs to, Unclassified when it is in none
ExtractionKindOf(e) ==
    IF e.type # "Exception" THEN "Unclassified"
    ELSE IF e.msg = <<"F","a","i","l","e","d"," ","t","o"," ","p","a","r","s","e"," ","O","p","e","n","A","I"," ","r","e","s","p","o","n","s","e">> (* "Failed to parse OpenAI response" *) THEN "MalformedOutput"
    ELSE IF e.msg = <<"O","p","e","n","A","I"," ","A","P","I"," ","k","e","y"," ","i","s"," ","i","n","v","a","l","i","d"," ","o","r"," ","m","i","s","s","i","n","g">> (* "OpenAI API key is invalid or missing" *) THEN "AuthError"
    ELSE IF e.msg = <<"O","p","e","n","A","I"," ","A","P","I"," ","q","u","o","t","a"," ","e","x","c","e","e","d","e","d"," ","o","r"," ","b","i","l","l","i","n","g"," ","i","s","s","u","e">> (* "OpenAI API quota exceeded or billing issue" *) THEN "QuotaExceeded"
    ELSE IF e.msg = <<"O","p","e","n","A","I"," ","A","P","I"," ","r","a","t","e"," ","l","i","m","i","t"," ","e","x","c","e","e","d","e","d">> (* "OpenAI API rate limit exceeded" *) THEN "RateLimited"
    ELSE IF HasPrefix(<<"O","p","e","n","A","I"," ","p","r","o","c","e","s","s","i","n","g"," ","f","a","i","l","e","d",":"," ">> (* "OpenAI processing failed: " *), e.msg) THEN "Generic"
    ELSE "Unclassified"

FetchKinds == {"NotFound", "AccessDenied", "RateLimited", "Generic"}
ExtractionKinds == {"MalformedOutput", "AuthError", "QuotaExceeded", "RateLimited", "Generic"}

\* every fetch attempt made so far ended the given way
AllAttempts(kind) == \A i \in DOMAIN fetch_log : fetch_log[i].kind = kind

\* the first attempts were soft failures and the latest one returned content
SoftThenContent ==
    /\ fetch_log # <<>>
    /\ fetch_log[Len(fetch_log)].kind = "content"
    /\ \A i \in 1..(Len(fetch_log) - 1) : fetch_log[i].kind = "soft"

\* fetch, wait, fetch, ..., fetch with n fetches
RECURSIVE FetchesAndWaits(_)
FetchesAndWaits(n) ==
    IF n <= 0 THEN <<>>
    ELSE IF n = 1 THEN <<"fetch">>
    ELSE <<"fetch", "wait">> \o FetchesAndWaits(n - 1)

-----------------------------------------------------------------------------
(* Properties *)

\* C1: when all max_retries attempts were made and each was a soft failure
\* (empty or too-short content, nothing raised), the pipeline has failed with
\* "Failed to retrieve content from Instagram" (NoContentExtracted), which is in
\* no ContentUnavailable bucket, and the extractor was never called.
C1_SoftExhaustionIsNoContentExtracted ==
    (max_retries >= 1 /\ Len(fetch_log) = max_retries /\ AllAttempts("soft"))
    => /\ pc = "done"
       /\ pipeline.kind = "raise"
       /\ pipeline.exc = Exception(<<"F","a","i","l","e","d"," ","t","o"," ","r","e","t","r","i","e","v","e"," ","c","o","n","t","e","n","t"," ","f","r","o","m"," ","I","n","s","t","a","g","r","a","m">> (* "Failed to retrieve content from Instagram" *))
       /\ FetchKindOf(pipeline.exc) \notin FetchKinds
       /\ extractor_log = <<>>
       /\ Count("extract") = 0

C1_Witness ==
    /\ max_retries = 3
    /\ Len(fetch_log) = 3
    /\ AllAttempts("soft")
    /\ pipeline.kind = "raise"

\* C2: when every attempt so far raised (and the deadline did not cut the loop
\* short), the error is swallowed on attempts 1 .. max_retries-1 (the loop is
\* still running, nothing has been raised) and the max_retries-th attempt's
\* error is what the retry controller raises; the fetcher was called exactly
\* max_retries times by then.
C2_HardFailureRaisedOnLastAttempt ==
    (fetch_log # <<>> /\ AllAttempts("raised") /\ pipeline.kind # "cancelled")
    => /\ Len(fetch_log) <= max_retries
       /\ Len(fetch_log) < max_retries
            => retry_result = Pending /\ pipeline = Pending
               /\ pc \in {"sleeping", "fetching"}
       /\ Len(fetch_log) = max_retries
            => /\ retry_result = Raise(fetch_log[max_retries].exc)
               /\ Count("fetch") = max_retries
               /\ pc = "done"

C2_Witness ==
    /\ max_retries = 3
    /\ Len(fetch_log) = 3
    /\ AllAttempts("raised")
    /\ retry_result.kind = "raise"

\* C3: when the first k attempts were soft failures and attempt k+1 returned
\* usable content, the retry controller returned exactly that content, the
\* fetcher was called k+1 times (k+1 <= max_retries), and the successful
\* attempt is the last fetch or wait event of the invocation.
C3_ContentAfterSoftFailures ==
    SoftThenContent
    => /\ Len(fetch_log) <= max_retries
       /\ retry_result = Return(fetch_log[Len(fetch_log)].value)
       /\ scraped_content = fetch_log[Len(fetch_log)].value
       /\ Count("fetch") = Len(fetch_log)
       /\ SubSeq(trace, 1, 2 * Len(fetch_log) - 1) = FetchesAndWaits(Len(fetch_log))
       /\ \A i \in DOMAIN trace :
            i > 2 * Len(fetch_log) - 1 => trace[i] \notin {"fetch", "wait"}

C3_Witness ==
    /\ max_retries = 3
    /\ Len(fetch_log) = 3
    /\ SoftThenContent
    /\ pc = "done"

\* C4: when every attempt so far was a soft failure, the retry controller goes
\* on until max_retries attempts are made and then returns None: it raises
\* nothing, and it does not return before the max_retries-th attempt.
C4_SoftExhaustionReturnsNone ==
    (max_retries >= 1 /\ fetch_log # <<>> /\ AllAttempts("soft")
        /\ pipeline.kind # "cancelled")
    => /\ Len(fetch_log) <= max_retries
       /\ Len(fetch_log) < max_retries => retry_result = Pending
       /\ Len(fetch_log) = max_retries
            => retry_result = Return(None) /\ Count("fetch") = max_retries

C4_Witness ==
    /\ max_retries = 3
    /\ Len(fetch_log) = 3
    /\ AllAttempts("soft")
    /\ retry_result = Return(None)

\* the response of the service after soft-failure exhaustion
SoftExhaustionResponse == ScrapeResponse(AfterFetch(Return(None)))

\* C5: after hard-failure exhaustion of any fetch-failure kind (NotFound,
\* AccessDenied, RateLimited, Generic) the response of the service (status and
\* error text) differs from the response it gives after soft-failure exhaustion.
C5_HardExhaustionAnsweredUnlikeSoft ==
    (pc = "done" /\ retry_result.kind = "raise"
        /\ FetchKindOf(retry_result.exc) \in FetchKinds)
    => response # SoftExhaustionResponse

\* the stage order seen in the history of one invocation
C6_StageOrder ==
    /\ Count("extract") > 0
        => /\ fetch_log # <<>>
           /\ fetch_log[Len(fetch_log)].kind = "content"
           /\ \A i \in 1..(Len(fetch_log) - 1) : fetch_log[i].kind # "content"
           /\ SubSeq(trace, 1, 2 * Len(fetch_log) - 1) = FetchesAndWaits(Len(fetch_log))
           /\ trace[2 * Len(fetch_log)] = "extract"
           /\ Len(trace) <= 2 * Len(fetch_log) + 1
    /\ Count("normalize") > 0
        => /\ trace[Len(trace)] = "normalize"
           /\ trace[Len(trace) - 1] = "extract"
           /\ ~extractor_log[1].raises
           /\ extractor_log[1].function_call
           /\ extractor_log[1].json = "object"
    /\ pipeline.kind = "return"
        => /\ pc = "done"
           /\ trace = FetchesAndWaits(Len(fetch_log)) \o <<"extract", "normalize">>
    /\ pipeline.kind \in {"raise", "cancelled"}
        => /\ pc = "done"
           /\ Count("normalize") = 0
    /\ pc = "done" <=> pipeline.kind # "pending"

\* C6: in every run the stages occur in the order Fetching, Extracting,
\* Normalizing, Done: the extractor is called only after a fetch attempt returned
\* usable content, the normalizer only after the extractor returned a structured
\* object, a failure ends the run only before the normalizer has run, and once
\* the run has ended no fetch, wait, extraction or normalization happens.
C6_StagesInOrder ==
    /\ []C6_StageOrder
    /\ [][pc = "done" => UNCHANGED <<trace, fetch_log, extractor_log, pipeline, response>>]_vars

C6_Witness ==
    /\ pipeline.kind = "return"
    /\ Len(fetch_log) = 3
    /\ Count("normalize") = 1

\* C7: when the extractor call returns without a function call (no structured
\* object), the pipeline fails with NoStructuredData, which is none of the
\* ExtractionFailed kinds.
C7_NoFunctionCallIsNoStructuredData ==
    (extractor_log # <<>> /\ ~extractor_log[1].raises /\ ~extractor_log[1].function_call)
    => /\ pipeline.kind = "raise"
       /\ ExtractionKindOf(pipeline.exc) \notin ExtractionKinds

\* C8: the extractor is called at most once per invocation; once it has been
\* called the invocation has ended, and nothing but the normalizer follows the
\* extractor call: no second extraction and no fetch attempt or wait.
C8_ExtractionNeverRetried ==
    /\ Len(extractor_log) <= 1
    /\ Count("extract") = Len(extractor_log)
    /\ extractor_log # <<>>
        => /\ pc = "done"
           /\ \A i \in DOMAIN trace :
                trace[i] = "extract" => \A j \in (i + 1)..Len(trace) : trace[j] = "normalize"

C8_Witness ==
    /\ Len(extractor_log) = 1
    /\ extractor_log[1].raises
    /\ pipeline.kind = "raise"
    /\ ExtractionKindOf(pipeline.exc) \in ExtractionKinds

\* C9: every error that leaves the fetch adapter is in one of the four
\* fetch-stage buckets, and every error that ends the pipeline in the extraction
\* stage is in one of the five extraction-stage buckets.
C9_NoUnclassifiedErrorEscapes ==
    /\ \A i \in DOMAIN fetch_log :
         fetch_log[i].kind = "raised" => FetchKindOf(fetch_log[i].exc) \in FetchKinds
    /\ (extractor_log # <<>> /\ pipeline.kind = "raise")
         => ExtractionKindOf(pipeline.exc) \in ExtractionKinds

\* C10: the service answers a failure in the category of the stage where it
\* arose: no extraction-stage failure gets the Instagram-access (404) or the
\* Instagram-rate-limit (429) response, and no fetch-stage failure gets the
\* "AI processing service" (503) response.
C10_ServiceKeepsStageCategory ==
    (pc = "done" /\ pipeline.kind = "raise")
    => /\ extractor_log # <<>>
            => response.error \notin
                 {"Instagram post is private, deleted, or not accessible",
                  "Instagram is rate limiting requests. Please try again later."}
       /\ retry_result.kind = "raise"
            => response.error # "AI processing service is temporarily unavailable"

-----------------------------------------------------------------------------
(* Properties of the classifiers *)

\* the kind of the first bucket, in the given order, one of whose keywords occurs
\* in the lower-cased message; otherwise the fallback kind
FirstBucket(buckets, msg, fallback) ==
    LET hits == {i \in DOMAIN buckets : ContainsAny(buckets[i].keywords, Lower(msg))}
    IN IF hits = {} THEN fallback
       ELSE buckets[CHOOSE i \in hits : \A j \in hits : i <= j].kind

FetchBuckets ==
    << [kind |-> "NotFound", keywords |-> {<<"4","0","4">> (* "404" *), <<"n","o","t"," ","f","o","u","n","d">> (* "not found" *)}],
       [kind |-> "AccessDenied", keywords |-> {<<"4","0","3">> (* "403" *), <<"f","o","r","b","i","d","d","e","n">> (* "forbidden" *)}],
       [kind |-> "RateLimited", keywords |-> {<<"r","a","t","e"," ","l","i","m","i","t">> (* "rate limit" *), <<"4","2","9">> (* "429" *)}] >>

\* the message of the failed crawl, empty when the crawler gave none
UnitMessage == IF unit.arg = None THEN <<>> ELSE Val(unit.arg)

\* C11: a failed crawl is raised as the first bucket, in the order NotFound,
\* AccessDenied, RateLimited, one of whose keywords occurs in the lower-cased
\* failure message, and as Generic when none occurs; "403 forbidden" is
\* AccessDenied and "429 too many requests" is RateLimited.
C11_FetchErrorIsFirstMatchingBucket ==
    unit.stage = "applied"
    => /\ unit.out.kind = "raise"
       /\ FetchKindOf(unit.out.exc) = FirstBucket(FetchBuckets, UnitMessage, "Generic")
       /\ unit.arg = Some(<<"4","0","3"," ","f","o","r","b","i","d","d","e","n">> (* "403 forbidden" *)) => FetchKindOf(unit.out.exc) = "AccessDenied"
       /\ unit.arg = Some(<<"4","2","9"," ","t","o","o"," ","m","a","n","y"," ","r","e","q","u","e","s","t","s">> (* "429 too many requests" *))
          => FetchKindOf(unit.out.exc) = "RateLimited"

\* a message with a RateLimited keyword before a NotFound keyword in another case
C11_Witness ==
    /\ unit.stage = "applied"
    /\ unit.arg = Some(<<"4","2","9","N","o","t"," ","F","o","u","n","d">> (* "429Not Found" *))
    /\ FetchKindOf(unit.out.exc) = "NotFound"

OpenAIBuckets ==
    << [kind |-> "AuthError", keywords |-> {<<"a","p","i"," ","k","e","y">> (* "api key" *)}],
       [kind |-> "QuotaExceeded", keywords |-> {<<"q","u","o","t","a">> (* "quota" *), <<"b","i","l","l","i","n","g">> (* "billing" *)}],
       [kind |-> "RateLimited", keywords |-> {<<"r","a","t","e"," ","l","i","m","i","t">> (* "rate limit" *)}] >>

\* the error the extractor call of unit.arg ended in, before classification
UnitExtractorError ==
    IF unit.arg.raises THEN unit.arg.exc
    ELSE IF ~unit.arg.function_call THEN NoFunctionCallError
    ELSE IF unit.arg.json # "object" THEN AttributeError(unit.arg.json)
    ELSE ValidationError(ValidationErrors(
             BackfillExtra(unit.arg.extra, <<"h","t","t","p","s",":","/","/","w","w","w",".","i","n","s","t","a","g","r","a","m",".","c","o","m","/","p","/","A","B","C","1","2","3","/">> (* "https://www.instagram.com/p/ABC123/" *))))

\* the output could not be read as JSON: the arguments are not JSON, or the
\* call itself ended in the JSON decoding error
NotValidJson ==
    \/ ~unit.arg.raises /\ unit.arg.function_call /\ unit.arg.json = "invalid"
    \/ unit.arg.raises /\ unit.arg.exc.type = "JSONDecodeError"

\* C12: extractor output that is not valid JSON is raised as MalformedOutput;
\* every other error of the extractor call is raised as the first bucket, in
\* the order AuthError, QuotaExceeded, RateLimited, one of whose keywords occurs
\* in its lower-cased message, and as Generic when none occurs.
C12_ExtractorErrorIsFirstMatchingBucket ==
    unit.stage = "applied"
    => /\ unit.out.kind = "raise"
       /\ IF NotValidJson
          THEN ExtractionKindOf(unit.out.exc) = "MalformedOutput"
          ELSE ExtractionKindOf(unit.out.exc)
               = FirstBucket(OpenAIBuckets, UnitExtractorError.msg, "Generic")

\* a message with a QuotaExceeded keyword before an AuthError keyword
C12_Witness ==
    /\ unit.stage = "applied"
    /\ unit.arg = CreateRaises(Exception(<<"Q","u","o","t","a","A","P","I"," ","k","e","y">> (* "QuotaAPI key" *)))
    /\ ExtractionKindOf(unit.out.exc) = "AuthError"

-----------------------------------------------------------------------------
(* Properties of the deadline *)

\* C13: when SCRAPE_TIMEOUT elapses before the pipeline has produced its
\* outcome, whichever stage is running, the pipeline is abandoned and the
\* request is answered with the timeout response (408).
C13_DeadlineAbandonsPipeline ==
    (deadline_elapsed /\ pc = "done")
    => /\ pipeline = Cancelled
       /\ response = TimeoutResponse

-----------------------------------------------------------------------------
(* Properties of requests served at once *)

\* how the retry loop ends on the fetch results from the k-th (0-based) on,
\* Pending when the results end before the loop does
RECURSIVE RetryOutcome(_, _, _)
RetryOutcome(results, k, max) ==
    IF k >= max THEN Return(None)
    ELSE IF k + 1 > Len(results) THEN Pending
    ELSE LET step == RetryStep(results[k + 1], k, max)
         IN IF step.next = "done" THEN step.result
            ELSE RetryOutcome(results, k + 1, max)

\* the outcome of a request run alone on the responses given to invocation inv
OutcomeAlone(inv) ==
    LET after == AfterFetch(RetryOutcome(inv.fetch_log, 0, max_retries))
    IN IF after.kind # "continue" THEN after
       ELSE IF inv.extractor_log = <<>> THEN Pending
       ELSE AfterParse(_parse_with_openai(Val(after.value), inv.url, inv.extractor_log[1]))

\* C14: of the requests served at once, each one makes at most max_retries
\* fetch attempts counted from its own first attempt, and ends with the outcome
\* (and the record) that its own fetch and extraction responses give it when it
\* runs alone, whatever the other requests do.
C14_ConcurrentInvocationsIndependent ==
    \A i \in DOMAIN invocations :
        LET inv == invocations[i]
        IN /\ Len(inv.fetch_log) <= max_retries
           /\ inv.attempt <= Len(inv.fetch_log)
           /\ (inv.pc = "done" /\ inv.pipeline # Cancelled)
              => /\ inv.pipeline = OutcomeAlone(inv)
                 /\ inv.response = ScrapeResponse(OutcomeAlone(inv))

\* one request has failed twice and is retrying while the other one, on its
\* first attempt, fetched content and returned its own record
C14_Witness ==
    /\ invocations # <<>>
    /\ max_retries = 3
    /\ invocations[1].pc = "fetching"
    /\ invocations[1].attempt = 2
    /\ invocations[2].pc = "done"
    /\ Len(invocations[2].fetch_log) = 1
    /\ invocations[2].pipeline.kind = "return"
    /\ Val(invocations[2].pipeline.value).url = Some(InvocationUrls[2])

-----------------------------------------------------------------------------
(* Properties of the normalizer *)

\* a text field is set: it is neither null nor the empty text
IsSet(o) == o # None /\ Val(o) # <<>>

\* the video-indicator test: an extension or a path marker occurs in the URL,
\* whatever the case of its letters
VideoLike(url) ==
    \E k \in { <<".","m","p","4">> (* ".mp4" *), <<".","m","o","v">> (* ".mov" *), <<".","w","e","b","m">> (* ".webm" *), <<".","a","v","i">> (* ".avi" *),
               <<"v","i","d","e","o","/">> (* "video/" *), <<"/","v","i","d","e","o">> (* "/video" *), <<"v","i","d","e","o","s",".">> (* "videos." *), <<"v","i","d","e","o","p","l","a","y","b","a","c","k">> (* "videoplayback" *) } :
        Contains(k, Lower(url))

Normalized == unit.stage \in {"once", "twice"}

\* C15: the normalizer is idempotent: normalizing a normalized record gives the
\* same record, in every field.
C15_NormalizeIdempotent ==
    unit.stage = "twice" => unit.again = unit.out

\* a record the first pass changed and the second pass left alone
C15_Witness ==
    /\ unit.stage = "twice"
    /\ unit.arg.imageUrl = Some(<<"t","h","u","m","b",".","j","p","g">> (* "thumb.jpg" *))
    /\ unit.arg.displayUrl = None
    /\ unit.arg.type = Some(<<"i","m","a","g","e">> (* "image" *))
    /\ Val(unit.out).displayUrl = Some(<<"t","h","u","m","b",".","j","p","g">> (* "thumb.jpg" *))
    /\ Val(unit.out).type = Some(<<"v","i","d","e","o">> (* "video" *))
    /\ unit.again = unit.out

\* C16: rule 1: a record whose videoUrl is non-empty and passes the
\* video-indicator test is normalized to type video, whatever its type was (null,
\* image or carousel); a videoUrl ending in .mp4 with type null gives video.
C16_VideoUrlForcesVideoType ==
    (Normalized /\ IsSet(unit.arg.videoUrl) /\ VideoLike(Val(unit.arg.videoUrl)))
    => Val(unit.out).type = Some(<<"v","i","d","e","o">> (* "video" *))

\* an upper-case extension and a prior type of image
C16_Witness ==
    /\ unit.stage = "once"
    /\ unit.arg.videoUrl = Some(<<"h","t","t","p","s",":","/","/","c","d","n",".","e","x","a","m","p","l","e","/","V",".","M","O","V","?","x","=","1">> (* "https://cdn.example/V.MOV?x=1" *))
    /\ unit.arg.type = Some(<<"i","m","a","g","e">> (* "image" *))
    /\ Val(unit.out).type = Some(<<"v","i","d","e","o">> (* "video" *))

\* the condition of rule 2
ThumbnailCondition(post) ==
    /\ IsSet(post.videoUrl) /\ VideoLike(Val(post.videoUrl))
    /\ IsSet(post.imageUrl)
    /\ ~IsSet(post.displayUrl)

\* C17: rule 2: when videoUrl passes the video-indicator test, imageUrl is set
\* and displayUrl is not set, the normalized record has the former imageUrl as
\* displayUrl and imageUrl null; otherwise imageUrl and displayUrl are left as
\* they were. A field holding the empty text counts as not set.
C17_ImageMovedToDisplayUrl ==
    Normalized
    => IF ThumbnailCondition(unit.arg)
       THEN /\ Val(unit.out).displayUrl = unit.arg.imageUrl
            /\ Val(unit.out).imageUrl = None
       ELSE /\ Val(unit.out).displayUrl = unit.arg.displayUrl
            /\ Val(unit.out).imageUrl = unit.arg.imageUrl

\* videoUrl x.mp4, imageUrl thumb.jpg, displayUrl null
C17_Witness ==
    /\ unit.stage = "once"
    /\ unit.arg.videoUrl = Some(<<"x",".","m","p","4">> (* "x.mp4" *))
    /\ unit.arg.imageUrl = Some(<<"t","h","u","m","b",".","j","p","g">> (* "thumb.jpg" *))
    /\ unit.arg.displayUrl = None
    /\ Val(unit.out).displayUrl = Some(<<"t","h","u","m","b",".","j","p","g">> (* "thumb.jpg" *))
    /\ Val(unit.out).imageUrl = None

\* C18: rule 3: a record whose type is null and whose videoViewCount or
\* videoPlayCount is non-null, whatever the integer (0 included), is normalized
\* to type video.
C18_AnyVideoCountImpliesVideo ==
    (Normalized /\ unit.arg.type = None
     /\ (unit.arg.videoViewCount # None \/ unit.arg.videoPlayCount # None))
    => Val(unit.out).type = Some(<<"v","i","d","e","o">> (* "video" *))

\* the fields the normalizer must leave alone
FrameFields ==
    { "caption", "url", "videoUrl", "shortCode", "timestamp", "likesCount",
      "commentsCount", "videoViewCount", "videoPlayCount", "ownerUsername",
      "ownerFullName", "locationName", "hashtags", "mentions", "alt" }

\* C19: the normalizer touches no field other than type, imageUrl and
\* displayUrl: every other field is the same before and after normalization.
C19_NormalizeFrame ==
    Normalized => \A f \in FrameFields : Val(unit.out)[f] = unit.arg[f]

\* a record with every field set, of which the normalizer changed the three
C19_Witness ==
    /\ unit.stage = "once"
    /\ unit.arg.caption = Some(<<"T","e","s","t"," ","p","o","s","t"," ","#","t","a","g"," ","@","f","r","i","e","n","d">> (* "Test post #tag @friend" *))
    /\ unit.arg.videoUrl = Some(<<" ","c","l","i","p",".","w","e","b","m"," ">> (* " clip.webm " *))
    /\ unit.arg.imageUrl = Some(<<"t","h","u","m","b",".","j","p","g">> (* "thumb.jpg" *))
    /\ unit.arg.videoViewCount = Some(5)
    /\ Val(unit.out).type # unit.arg.type
    /\ Val(unit.out).imageUrl # unit.arg.imageUrl
    /\ Val(unit.out).displayUrl # unit.arg.displayUrl

\* a video-like URL occurs in one of the URL fields of the extractor's raw output
RawHasVideoLikeUrl(args) ==
    \E o \in {args.videoUrl, args.imageUrl, args.displayUrl} :
        IsSet(o) /\ VideoLike(Val(o))

\* C20: a record the pipeline returns with type video has its videoUrl
\* populated whenever a video-like URL was in the videoUrl, imageUrl or
\* displayUrl of the extractor's raw output.
C20_VideoRecordHasVideoUrl ==
    (/\ pc = "done"
     /\ pipeline.kind = "return"
     /\ Val(pipeline.value).type = Some(<<"v","i","d","e","o">> (* "video" *))
     /\ RawHasVideoLikeUrl(extractor_log[1].args))
    => IsSet(Val(pipeline.value).videoUrl)

-----------------------------------------------------------------------------
(* Properties of the backfill *)

IdentifierChars ==
    {UpperCase[i] : i \in 1..26} \cup {LowerCase[i] : i \in 1..26}
    \cup {Digits[i] : i \in 1..10} \cup {"_", "-"}

\* the longest run of identifier characters of s from position i on
RECURSIVE IdentifierFrom(_, _)
IdentifierFrom(s, i) ==
    IF i > Len(s) \/ s[i] \notin IdentifierChars THEN <<>>
    ELSE <<s[i]>> \o IdentifierFrom(s, i + 1)

\* the identifier after the first '/p/' of s, from position i on, that has one
RECURSIVE SegmentIdentifierFrom(_, _)
SegmentIdentifierFrom(s, i) ==
    IF i + 2 > Len(s) THEN None
    ELSE IF SubSeq(s, i, i + 2) = <<"/","p","/">> (* "/p/" *) /\ IdentifierFrom(s, i + 3) # <<>>
    THEN Some(IdentifierFrom(s, i + 3))
    ELSE SegmentIdentifierFrom(s, i + 1)

SegmentIdentifier(url) == SegmentIdentifierFrom(url, 1)

\* C21: after a successful extraction the record's shortCode is the extractor's
\* value when that is non-empty; otherwise, when the input URL has a '/p/'
\* segment followed by an identifier of letters, digits, underscore or hyphen,
\* it is that identifier ('.../p/ABC123/' gives 'ABC123'); the shortCode is
\* never null when the URL segment is parseable.
C21_ShortCodeBackfill ==
    unit.stage = "applied"
    => /\ unit.out.kind = "return"
       /\ IF IsSet(unit.arg.shortCode)
          THEN Val(unit.out.value).shortCode = unit.arg.shortCode
          ELSE SegmentIdentifier(unit.url) # None
               => Val(unit.out.value).shortCode = SegmentIdentifier(unit.url)
       /\ SegmentIdentifier(unit.url) # None => Val(unit.out.value).shortCode # None
       /\ unit.url = <<"h","t","t","p","s",":","/","/","w","w","w",".","i","n","s","t","a","g","r","a","m",".","c","o","m","/","p","/","A","B","C","1","2","3","/">> (* "https://www.instagram.com/p/ABC123/" *) /\ unit.arg.shortCode = None
          => Val(unit.out.value).shortCode = Some(<<"A","B","C","1","2","3">> (* "ABC123" *))

\* the extractor gave an empty shortCode and a url of another post
C21_Witness ==
    /\ unit.stage = "applied"
    /\ unit.url = <<"h","t","t","p","s",":","/","/","w","w","w",".","i","n","s","t","a","g","r","a","m",".","c","o","m","/","p","/","X","y","Z","_","9","-","a","/","?","i","g","s","h","i","d","=","1">> (* "https://www.instagram.com/p/XyZ_9-a/?igshid=1" *)
    /\ unit.arg.shortCode = Some(<<>>)
    /\ unit.arg.url = Some(<<"h","t","t","p","s",":","/","/","w","w","w",".","i","n","s","t","a","g","r","a","m",".","c","o","m","/","p","/","O","T","H","E","R","1","/">> (* "https://www.instagram.com/p/OTHER1/" *))
    /\ Val(unit.out.value).shortCode = Some(<<"X","y","Z","_","9","-","a">> (* "XyZ_9-a" *))

-----------------------------------------------------------------------------
(* Properties of the service *)

ServiceBuckets ==
    << [kind |-> 404, keywords |-> {<<"p","r","i","v","a","t","e">> (* "private" *), <<"n","o","t"," ","f","o","u","n","d">> (* "not found" *), <<"4","0","4">> (* "404" *), <<"a","c","c","e","s","s"," ","d","e","n","i","e","d">> (* "access denied" *)}],
       [kind |-> 429, keywords |-> {<<"r","a","t","e"," ","l","i","m","i","t">> (* "rate limit" *), <<"b","l","o","c","k","e","d">> (* "blocked" *), <<"t","o","o"," ","m","a","n","y"," ","r","e","q","u","e","s","t","s">> (* "too many requests" *)}],
       [kind |-> 503, keywords |-> {<<"o","p","e","n","a","i">> (* "openai" *), <<"a","p","i"," ","k","e","y">> (* "api key" *), <<"q","u","o","t","a">> (* "quota" *), <<"b","i","l","l","i","n","g">> (* "billing" *)}],
       [kind |-> 503, keywords |-> {<<"n","e","t","w","o","r","k">> (* "network" *), <<"c","o","n","n","e","c","t","i","o","n">> (* "connection" *), <<"t","i","m","e","o","u","t">> (* "timeout" *)}] >>

\* the pipeline ended in the overall timeout
TimedOut == pipeline.kind = "cancelled" \/ pipeline.exc.type = "TimeoutError"

\* C22: every failure of the pipeline, and the overall timeout, is answered
\* with one response with success = false whose status follows the priority
\* order: timeout 408; 'private', 'not found', '404', 'access denied' 404;
\* 'rate limit', 'blocked', 'too many requests' 429; 'openai', 'api key',
\* 'quota', 'billing' 503; 'network', 'connection', 'timeout' 503; else 500.
C22_FailureToResponseIsTotal ==
    (pc = "done" /\ pipeline.kind \in {"raise", "cancelled"})
    => /\ response.success = FALSE
       /\ response.data = None
       /\ response.status =
            IF TimedOut THEN 408
            ELSE FirstBucket(ServiceBuckets, pipeline.exc.msg, 500)

\* a message with a keyword of the second and of the third bucket
C22_Witness ==
    /\ pc = "done"
    /\ pipeline.kind = "raise"
    /\ pipeline.exc = Exception(<<"O","p","e","n","A","I"," ","A","P","I"," ","r","a","t","e"," ","l","i","m","i","t"," ","e","x","c","e","e","d","e","d">> (* "OpenAI API rate limit exceeded" *))
    /\ response.status = 429
    /\ response.success = FALSE

-----------------------------------------------------------------------------
(* Properties of the request validation *)

\* the request declares a JSON body
DeclaresJson(request) ==
    /\ request.content_type # None
    /\ HasPrefix(<<"a","p","p","l","i","c","a","t","i","o","n","/","j","s","o","n">> (* "application/json" *), Lower(Val(request.content_type)))

\* http or https, optional www, instagram.com, /p/, /reel/ or /tv/, an
\* identifier, optional trailing slash
PostUrl(url) ==
    \E scheme \in {<<"h","t","t","p",":","/","/">> (* "http://" *), <<"h","t","t","p","s",":","/","/">> (* "https://" *)}, www \in {<<>>, <<"w","w","w",".">> (* "www." *)},
       kind \in {<<"p","/">> (* "p/" *), <<"r","e","e","l","/">> (* "reel/" *), <<"t","v","/">> (* "tv/" *)}, slash \in {<<>>, <<"/">> (* "/" *)} :
        LET head == scheme \o www \o <<"i","n","s","t","a","g","r","a","m",".","c","o","m","/">> (* "instagram.com/" *) \o kind
            id == SubSeq(url, Len(head) + 1, Len(url) - Len(slash))
        IN /\ url = head \o id \o slash
           /\ id # <<>>
           /\ \A i \in DOMAIN id : id[i] \in IdentifierChars

\* the request is one the validation must refuse
InvalidRequest(request) ==
    \/ ~DeclaresJson(request)
    \/ ~request.body.has_url
    \/ request.body.instagram_url = None
    \/ ~PostUrl(Val(request.body.instagram_url))

ScraperNeverInvoked == unit.calls = 0 /\ trace = <<>> /\ fetch_log = <<>>

\* C23: a request whose Content-Type is not JSON, whose body lacks
\* instagram_url, or whose URL does not match the post pattern is answered 400
\* with success = false and the scraper is never invoked; for a URL that
\* matches, the scraper is invoked exactly once. (Bodies that are not JSON
\* under a JSON Content-Type are the subject of C24.)
C23_ValidationPrecedesPipeline ==
    (unit.stage = "validated"
     /\ ~(DeclaresJson(unit.request) /\ unit.request.body.json = "invalid"))
    => IF InvalidRequest(unit.request)
       THEN /\ pc = "done"
            /\ response.status = 400
            /\ response.success = FALSE
            /\ ScraperNeverInvoked
       ELSE unit.calls = 1

\* C24: a request that declares Content-Type application/json and whose body
\* is not JSON is answered 400 with success = false, and the scraper is not
\* invoked.
C24_UnparseableBodyIs400 ==
    (unit.stage = "validated" /\ DeclaresJson(unit.request)
     /\ unit.request.body.json = "invalid")
    => /\ response.status = 400
       /\ response.success = FALSE
       /\ ScraperNeverInvoked

-----------------------------------------------------------------------------
(* Properties of the retry controller and the orchestrator, continued *)

LastFetch == fetch_log[Len(fetch_log)]

\* C25: when the fetch adapter raises on the final attempt, the retry
\* controller and scrape_instagram_post raise that same error, with the same
\* type and message: a classified failure stays in its bucket.
C25_FetchErrorPropagatesUnchanged ==
    (fetch_log # <<>> /\ Len(fetch_log) = max_retries /\ LastFetch.kind = "raised")
    => /\ pc = "done"
       /\ retry_result = Raise(LastFetch.exc)
       /\ pipeline = Raise(LastFetch.exc)
       /\ FetchKindOf(pipeline.exc) = FetchKindOf(LastFetch.exc)

\* a soft failure, a NotFound failure, and an AccessDenied failure on the last attempt
C25_Witness ==
    /\ max_retries = 3
    /\ Len(fetch_log) = 3
    /\ fetch_log[1].kind = "soft"
    /\ fetch_log[2].kind = "raised"
    /\ FetchKindOf(fetch_log[2].exc) = "NotFound"
    /\ FetchKindOf(fetch_log[3].exc) = "AccessDenied"
    /\ fetch_log[3].kind = "raised"
    /\ pipeline.kind = "raise"
    /\ pipeline.exc.msg = <<"I","n","s","t","a","g","r","a","m"," ","p","o","s","t"," ","i","s"," ","p","r","i","v","a","t","e"," ","o","r"," ","a","c","c","e","s","s"," ","d","e","n","i","e","d">> (* "Instagram post is private or access denied" *)

\* C26: once the deadline has elapsed during a fetch attempt or a retry wait
\* and the timeout is answered, the abandoned invocation makes no further fetch
\* attempt, retry wait or extraction call; the cancellation itself is not
\* recorded as one more failed attempt of the retry loop.
C26_NoWorkOutlivesTheCall ==
    /\ [](pipeline = Cancelled
          => /\ pc = "done"
             /\ deadline_elapsed
             /\ response = TimeoutResponse
             /\ extractor_log = <<>>
             /\ Count("fetch") = Len(fetch_log)
             /\ \A i \in DOMAIN fetch_log : fetch_log[i].kind # "content")
    /\ [][(pipeline = Cancelled \/ pipeline' = Cancelled)
          => UNCHANGED <<fetch_log, extractor_log, trace, attempt, retry_result>>]_vars

\* the deadline elapsed during the wait after the second failed attempt
C26_Witness ==
    /\ pipeline = Cancelled
    /\ response.status = 408
    /\ max_retries = 3
    /\ Len(fetch_log) = 2
    /\ trace = <<"fetch", "wait", "fetch", "wait">>

\* the crawl results that the adapter raises as an error of bucket K
FailuresOfKind(K) ==
    {o \in FailureOutcomes : FetchKindOf(_scrape_with_crawl4ai(o).exc) = K}

\* C27 (as stated): there are classes of explicit fetch error that the retry
\* controller does not retry: before an attempt that is not the last, some
\* bucket is such that an error of it, raised by this attempt, ends the loop at
\* once with that error.
C27_SomeErrorClassIsFatal ==
    (pc = "fetching" /\ attempt + 1 < max_retries)
    => \E K \in FetchKinds :
         /\ FailuresOfKind(K) # {}
         /\ \A o \in FailuresOfKind(K) :
              RetryStep(_scrape_with_crawl4ai(o), attempt, max_retries)
              = [next |-> "done", result |-> _scrape_with_crawl4ai(o)]

\* C27 (amended): no class of fetch error is exempt from the retry: an error of
\* any bucket raised on an attempt before the last is swallowed, the
\* controller waits and goes on to the next attempt, and nothing is raised to
\* the caller at that point.
C27_EveryErrorClassIsRetried ==
    \A i \in DOMAIN fetch_log :
        (fetch_log[i].kind = "raised" /\ i < max_retries)
        => /\ Len(trace) >= 2 * i
           /\ trace[2 * i - 1] = "fetch"
           /\ trace[2 * i] = "wait"
           /\ Len(fetch_log) = i
                => /\ retry_result = Pending
                   /\ pc \in {"sleeping", "fetching"} \/ pipeline = Cancelled

\* a NotFound error on the first attempt and an AccessDenied error on the second
C27_Witness ==
    /\ max_retries = 3
    /\ Len(fetch_log) = 2
    /\ fetch_log[1].kind = "raised"
    /\ FetchKindOf(fetch_log[1].exc) = "NotFound"
    /\ fetch_log[2].kind = "raised"
    /\ FetchKindOf(fetch_log[2].exc) = "AccessDenied"
    /\ pc = "fetching"
    /\ attempt = 2

\* C28: the backoff is a fixed delay. Every wait of the retry loop lasts the
\* configured delay, whatever the attempt number and whether the attempt ended
\* in a soft failure or in a raised error; a wait only ever follows an attempt,
\* two consecutive attempts are separated by exactly one wait, and when the
\* loop has ended after n attempts it has waited exactly n - 1 times.
C28_FixedDelayBackoff ==
    /\ Len(slept) = Count("wait")
    /\ \A i \in DOMAIN slept : slept[i] = INSTAGRAM_RETRY_DELAY
    /\ \A i \in DOMAIN trace :
         /\ trace[i] = "wait" => i > 1 /\ trace[i - 1] = "fetch"
         /\ (trace[i] = "fetch" /\ i > 1)
            => i > 2 /\ trace[i - 1] = "wait" /\ trace[i - 2] = "fetch"
    /\ (retry_result # Pending /\ Len(fetch_log) >= 1)
       => Count("wait") = Len(fetch_log) - 1

\* three attempts, the first a soft failure and the second a raised error: the
\* loop has ended and has slept twice
C28_Witness ==
    /\ max_retries = 3
    /\ Len(fetch_log) = 3
    /\ fetch_log[1].kind = "soft"
    /\ fetch_log[2].kind = "raised"
    /\ retry_result # Pending
    /\ Len(slept) = 2

-----------------------------------------------------------------------------
(* Properties of the fetched text *)

\* the number of characters from the first to the last character of s that is
\* not whitespace
TrimmedLength(s) ==
    LET kept == {i \in DOMAIN s : s[i] \notin Whitespace}
    IN IF kept = {} THEN 0
       ELSE (CHOOSE i \in kept : \A j \in kept : j <= i)
            - (CHOOSE i \in kept : \A j \in kept : i <= j) + 1

\* the trimmed length of the text of a crawl result, 0 when the text is missing
FetchedLength(result) ==
    IF result.markdown = None THEN 0 ELSE TrimmedLength(Val(result.markdown))

\* a media reference as it is written into the content: its type and its URL
MediaReference(media_item) ==
    <<"(">> (* "(" *) \o (IF ~media_item.has_type THEN <<"u","n","k","n","o","w","n">> (* "unknown" *)
             ELSE IF media_item.type = None THEN <<"N","o","n","e">> (* "None" *)
             ELSE Val(media_item.type))
    \o <<")",":"," ">> (* "): " *) \o Val(media_item.url)

\* C29: a successful fetch yields content exactly when its text, trimmed of the
\* surrounding whitespace, has at least 100 characters; otherwise (99 or fewer,
\* empty or missing text) the adapter returns null and raises nothing. A text of
\* exactly 100 characters is accepted, and accepted content starts with the
\* fetched text, untrimmed.
C29_ContentGate ==
    (unit.stage \in {"fetched", "submitted"})
    => LET n == FetchedLength(unit.result)
       IN /\ n >= 100
               => /\ unit.out.kind = "return"
                  /\ unit.out.value # None
                  /\ HasPrefix(Val(unit.result.markdown), Val(unit.out.value))
          /\ n < 100 => unit.out = Return(None)

\* a padded text whose trimmed length is exactly 100 was accepted
C29_Witness ==
    /\ unit.stage = "fetched"
    /\ FetchedLength(unit.result) = 100
    /\ Len(Val(unit.result.markdown)) > 100
    /\ unit.out.kind = "return"
    /\ unit.out.value # None

\* C30: every media reference of a successful fetch that has a URL is contained,
\* with its type and its URL, in the text submitted to the extractor, whatever
\* the length of the fetched text.
C30_MediaReachesExtractor ==
    unit.stage = "submitted"
    => \A i \in DOMAIN unit.result.media :
           TruthyStr(unit.result.media[i].url)
           => Contains(MediaReference(unit.result.media[i]), Val(unit.prompt))


\* the fixed text of the user message before and after the submitted content
PromptHeader(url) ==
    <<"P","l","e","a","s","e"," ","a","n","a","l","y","z","e"," ","t","h","i","s"," ","I","n","s","t","a","g","r","a","m"," ","p","o","s","t"," ","c","o","n","t","e","n","t"," ","a","n","d"," ","e","x","t","r","a","c","t"," ","t","h","e"," ","s","t","r","u","c","t","u","r","e","d"," ","d","a","t","a",":","\n","\n","U","R","L",":"," ">> (* "Please analyze this Instagram post content and extract the structured data:\n\nURL: " *)
    \o url \o <<"\n","\n","C","o","n","t","e","n","t",":","\n">> (* "\n\nContent:\n" *)
PromptTrailer ==
    <<" "," ","#"," ","L","i","m","i","t"," ","c","o","n","t","e","n","t"," ","t","o"," ","a","v","o","i","d"," ","t","o","k","e","n"," ","l","i","m","i","t","s","\n","\n","E","x","t","r","a","c","t"," ","a","l","l"," ","t","h","e"," ","a","v","a","i","l","a","b","l","e"," ","i","n","f","o","r","m","a","t","i","o","n"," ","a","n","d"," ","r","e","t","u","r","n"," ","a","s"," ","J","S","O","N"," ","m","a","t","c","h","i","n","g"," ","t","h","e"," ","s","c","h","e","m","a","."," ","F","o","c","u","s"," ","o","n"," ","a","c","c","u","r","a","c","y"," ","o","v","e","r"," ","c","o","m","p","l","e","t","e","n","e","s","s",".">> (* "  # Limit content to avoid token limits\n\nExtract all the available information and return as JSON matching the schema. Focus on accuracy over completeness." *)

\* C31: the text submitted to the extractor is the first 4000 characters of the
\* fetched content, or the whole content when it is shorter: between the fixed
\* header and the fixed trailer of the message stand exactly these characters,
\* each unaltered and in place, and nothing of the content beyond position 4000.
C31_SubmittedTextIsPrefix ==
    unit.stage = "submitted"
    => LET content == Val(unit.out.value)
           message == Val(unit.prompt)
           h == Len(PromptHeader(unit.url))
           k == IF Len(content) <= 4000 THEN Len(content) ELSE 4000
       IN /\ Len(message) = h + k + Len(PromptTrailer)
          /\ SubSeq(message, 1, h) = PromptHeader(unit.url)
          /\ \A i \in 1..k : message[h + i] = content[i]
          /\ SubSeq(message, h + k + 1, Len(message)) = PromptTrailer

\* a content longer than 4000 characters was submitted
C31_Witness ==
    /\ unit.stage = "submitted"
    /\ Len(Val(unit.out.value)) > 4000
    /\ unit.result.media # <<>>


-----------------------------------------------------------------------------
(* Properties of the backfill, continued *)

\* C32: after a successful extraction the record's url is the extractor's value
\* when the extractor gave a non-empty one, and the input URL of the pipeline
\* otherwise; the url of a returned record is never null or empty.
C32_SourceUrlBackfill ==
    unit.stage = "applied"
    => /\ unit.out.kind = "return"
       /\ unit.out.value # None
       /\ Val(unit.out.value).url
          = (IF IsSet(unit.arg.url) THEN unit.arg.url ELSE Some(unit.url))
       /\ IsSet(Val(unit.out.value).url)

\* the extractor gave an empty url and the record carries the input URL
C32_Witness ==
    /\ unit.stage = "applied"
    /\ unit.arg.url = Some(<<>>)
    /\ unit.url = <<"h","t","t","p","s",":","/","/","w","w","w",".","i","n","s","t","a","g","r","a","m",".","c","o","m","/","p","/","A","B","C","1","2","3","/">> (* "https://www.instagram.com/p/ABC123/" *)
    /\ Val(unit.out.value).url = Some(unit.url)


-----------------------------------------------------------------------------
(* Properties of the normalizer, continued *)

\* the normalized record is a video by its videoUrl
VideoByUrl == Normalized /\ IsSet(Val(unit.out).videoUrl) /\ VideoLike(Val(Val(unit.out).videoUrl))

\* C33: in every normalized record whose videoUrl passes the video-indicator
\* test, imageUrl is null, whether or not displayUrl was set before
\* normalization.
C33_VideoHasNoPrimaryImage ==
    VideoByUrl => Val(unit.out).imageUrl = None

\* C33 (amended): in a normalized record whose videoUrl passes the
\* video-indicator test, imageUrl is not set (null or empty) when displayUrl was
\* not set before normalization; when displayUrl was set, imageUrl is what it was
\* before, set or not.
C33_ImageClearedUnlessDisplayUrl ==
    VideoByUrl
    => IF IsSet(unit.arg.displayUrl)
       THEN Val(unit.out).imageUrl = unit.arg.imageUrl
       ELSE ~IsSet(Val(unit.out).imageUrl)

\* a video with an image and a displayUrl: imageUrl is kept beside the displayUrl
C33_Witness ==
    /\ unit.stage = "once"
    /\ unit.arg.videoUrl = Some(<<"x",".","m","p","4">> (* "x.mp4" *))
    /\ unit.arg.imageUrl = Some(<<"t","h","u","m","b",".","j","p","g">> (* "thumb.jpg" *))
    /\ unit.arg.displayUrl = Some(<<"d",".","j","p","g">> (* "d.jpg" *))
    /\ Val(unit.out).type = Some(<<"v","i","d","e","o">> (* "video" *))
    /\ Val(unit.out).imageUrl = Some(<<"t","h","u","m","b",".","j","p","g">> (* "thumb.jpg" *))

\* C40: the normalizer loses no media URL and does not downgrade the type: a
\* displayUrl that was set is unchanged, every non-empty value of imageUrl or
\* displayUrl is afterwards the value of imageUrl or of displayUrl, and the type
\* is what it was or video.
C40_NoMediaUrlLost ==
    Normalized
    => /\ IsSet(unit.arg.displayUrl) => Val(unit.out).displayUrl = unit.arg.displayUrl
       /\ \A o \in {unit.arg.imageUrl, unit.arg.displayUrl} :
            IsSet(o) => o \in {Val(unit.out).imageUrl, Val(unit.out).displayUrl}
       /\ Val(unit.out).type \in {unit.arg.type, Some(<<"v","i","d","e","o">> (* "video" *))}
       /\ unit.arg.type # None => Val(unit.out).type # None

\* a carousel with a video URL, an image and a displayUrl: the type became
\* video and both URLs are where they were
C40_Witness ==
    /\ unit.stage = "once"
    /\ unit.arg.type = Some(<<"c","a","r","o","u","s","e","l">> (* "carousel" *))
    /\ unit.arg.videoUrl = Some(<<"h","t","t","p","s",":","/","/","c","d","n",".","e","x","a","m","p","l","e","/","v","i","d","e","o","/","1">> (* "https://cdn.example/video/1" *))
    /\ unit.arg.imageUrl = Some(<<"t","h","u","m","b",".","j","p","g">> (* "thumb.jpg" *))
    /\ unit.arg.displayUrl = Some(<<"d",".","j","p","g">> (* "d.jpg" *))
    /\ Val(unit.out).type = Some(<<"v","i","d","e","o">> (* "video" *))
    /\ Val(unit.out).imageUrl = Some(<<"t","h","u","m","b",".","j","p","g">> (* "thumb.jpg" *))
    /\ Val(unit.out).displayUrl = Some(<<"d",".","j","p","g">> (* "d.jpg" *))


-----------------------------------------------------------------------------
(* Properties of the classifiers, continued *)

\* a keyword of the buckets occurs in the lower-cased failure message
MessageHas(keywords) == ContainsAny(keywords, Lower(UnitMessage))

\* C34: a failed crawl whose message says the resource is private (it contains
\* "private" and no keyword of NotFound, and neither "403" nor "forbidden") is
\* raised as AccessDenied, and one whose message says "too many requests"
\* (without "429" or "rate limit", and without a keyword of an earlier bucket)
\* is raised as RateLimited; neither is raised as Generic.
C34_PrivateAndThrottlingClassified ==
    unit.stage = "applied"
    => /\ (MessageHas({<<"p","r","i","v","a","t","e">> (* "private" *)})
           /\ ~MessageHas({<<"4","0","4">> (* "404" *), <<"n","o","t"," ","f","o","u","n","d">> (* "not found" *), <<"4","0","3">> (* "403" *), <<"f","o","r","b","i","d","d","e","n">> (* "forbidden" *)}))
          => FetchKindOf(unit.out.exc) = "AccessDenied"
       /\ (MessageHas({<<"t","o","o"," ","m","a","n","y"," ","r","e","q","u","e","s","t","s">> (* "too many requests" *)})
           /\ ~MessageHas({<<"4","0","4">> (* "404" *), <<"n","o","t"," ","f","o","u","n","d">> (* "not found" *), <<"4","0","3">> (* "403" *), <<"f","o","r","b","i","d","d","e","n">> (* "forbidden" *), <<"p","r","i","v","a","t","e">> (* "private" *),
                           <<"4","2","9">> (* "429" *), <<"r","a","t","e"," ","l","i","m","i","t">> (* "rate limit" *)}))
          => FetchKindOf(unit.out.exc) = "RateLimited"

\* C35: the error raised for a failed crawl carries the crawler's own failure
\* message: the message text occurs in the message of the raised error, for a
\* failure of every kind ("404 - Page not found" raises an error whose message
\* contains "Page not found").
C35_ErrorCarriesFetcherMessage ==
    unit.stage = "applied"
    => /\ unit.out.kind = "raise"
       /\ unit.arg # None => Contains(Val(unit.arg), unit.out.exc.msg)
       /\ unit.arg = Some(<<"4","0","4"," ","-"," ","P","a","g","e"," ","n","o","t"," ","f","o","u","n","d">> (* "404 - Page not found" *))
          => Contains(<<"P","a","g","e"," ","n","o","t"," ","f","o","u","n","d">> (* "Page not found" *), unit.out.exc.msg)


-----------------------------------------------------------------------------
(* Properties of the retry controller and the orchestrator, the last attempt *)

\* the retry loop made all its attempts and none gave content
NeverSucceeded ==
    /\ max_retries >= 1
    /\ Len(fetch_log) = max_retries
    /\ \A i \in DOMAIN fetch_log : fetch_log[i].kind \in {"soft", "raised"}

\* C36: when no attempt succeeds, the final attempt alone decides what the retry
\* controller does, whatever mix of soft failures and raised errors came
\* before: a final attempt that raised has its own error raised, and a final
\* soft failure gives the null result, the errors of earlier attempts being
\* dropped (the pipeline then fails with the no-content error).
C36_FinalAttemptDecides ==
    NeverSucceeded
    => /\ LastFetch.kind = "raised" => retry_result = Raise(LastFetch.exc)
       /\ LastFetch.kind = "soft"
          => retry_result = Return(None) /\ pipeline = Raise(NoContentError)

\* a NotFound error, a soft failure, and a final soft failure
C36_Witness ==
    /\ max_retries = 3
    /\ Len(fetch_log) = 3
    /\ fetch_log[1].kind = "raised"
    /\ FetchKindOf(fetch_log[1].exc) = "NotFound"
    /\ fetch_log[2].kind = "soft"
    /\ fetch_log[3].kind = "soft"
    /\ retry_result = Return(None)


\* C39: when the configured maximum number of attempts is 0 or negative, the
\* retry controller makes no fetch attempt and no wait and returns the null
\* result, and the pipeline fails with the no-content error; neither the
\* fetcher nor the extractor is ever called. The pipeline runs when
\* SCRAPE_TIMEOUT is positive, and the deadline does not cut in then; with a
\* SCRAPE_TIMEOUT of 0 or less the pipeline is cancelled before it has run, so
\* the retry controller is not called at all.
C39_NoAttemptsWhenMaxNotPositive ==
    max_retries <= 0
    => /\ fetch_log = <<>> /\ extractor_log = <<>> /\ trace = <<>> /\ slept = <<>>
       /\ pc \in {"start", "done"}
       /\ pc = "done"
          => IF SCRAPE_TIMEOUT > 0
             THEN /\ retry_result = Return(None)
                  /\ pipeline = Raise(NoContentError)
                  /\ ~deadline_elapsed
             ELSE retry_result = Pending /\ pipeline = Cancelled

\* a negative maximum: the pipeline has ended with the no-content error
C39_Witness ==
    /\ max_retries < 0
    /\ pc = "done"
    /\ retry_result = Return(None)
    /\ pipeline = Raise(NoContentError)
    /\ fetch_log = <<>>


\* the answer of the service to a pipeline that returned nothing (app.py:167-173)
NoDataResponse ==
    ErrorResponse(404, "Unable to extract data from Instagram post. The post may be private or inaccessible.")

\* C37: scrape_instagram_post never returns the null result: it returns a
\* record (with its url filled in) or raises. The service therefore never gives
\* its answer for a null result, and a retry controller that returned the null
\* result, as after soft-failure exhaustion, reaches the service as a raised
\* error.
C37_PipelineNeverReturnsNull ==
    /\ pipeline.kind \in {"pending", "return", "raise", "cancelled"}
    /\ pipeline.kind = "return"
       => /\ pipeline.value # None
          /\ IsSet(Val(pipeline.value).url)
          /\ response.status = 200
    /\ response # NoDataResponse
    /\ (retry_result = Return(None) /\ pc = "done")
       => /\ pipeline = Raise(NoContentError)
          /\ response = _handle_scraping_error(NoContentError)

\* two soft failures of two attempts: the pipeline raised, the service answered
C37_Witness ==
    /\ max_retries = 2
    /\ Len(fetch_log) = 2
    /\ AllAttempts("soft")
    /\ pc = "done"
    /\ pipeline.kind = "raise"
    /\ response.status = 500


\* C38: every invocation terminates. With every call of the fetcher and of the
\* extractor returning or raising, the invocation reaches its end (a record, an
\* error, or the timeout), and at no point has it made more than max_retries
\* fetch attempts, more than max_retries - 1 waits, or more than one
\* extraction call.
C38_InvocationTerminates ==
    /\ <>(pc = "done" /\ pipeline.kind \in {"return", "raise", "cancelled"})
    /\ [](/\ Len(fetch_log) <= (IF max_retries > 0 THEN max_retries ELSE 0)
          /\ Count("fetch") = Len(fetch_log)
          /\ Count("wait") <= (IF max_retries > 0 THEN max_retries - 1 ELSE 0)
          /\ Len(slept) = Count("wait")
          /\ Len(extractor_log) <= 1
          /\ Count("extract") = Len(extractor_log))

\* the longest invocation: three attempts, two waits and the extraction call
C38_Witness ==
    /\ max_retries = 3
    /\ Len(fetch_log) = 3
    /\ Count("wait") = 2
    /\ Len(extractor_log) = 1
    /\ pc = "done"
    /\ ~deadline_elapsed

=============================================================================
